---- MODULE Spec2Model ----
(***************************************************************************)
(* Model of the agentx run controller (Agent::run_goal, src/src/agent.rs)  *)
(* and of the CUA-backed reasoning session (CuaReasoner, same file).       *)
(*                                                                         *)
(* Two specifications share the variables:                                 *)
(*   Spec     one run of Agent::run_goal, driven either by an arbitrary    *)
(*            Reasoner (every outcome of success/think is possible) or by  *)
(*            a CuaReasoner whose remote service replies arbitrarily;      *)
(*   SpecCua  a CuaReasoner session called directly: any sequence of       *)
(*            think and success calls, any snapshot, any service reply.    *)
(***************************************************************************)
EXTENDS Integers, Sequences, FiniteSets, TLC

VARIABLES
    mode,           \* "agent" under Spec, "cua" under SpecCua
    \* ---- configuration (fixed at construction) ----
    max_steps,      \* AgentConfig.max_steps
    timeout_ms,     \* Goal.timeout_ms : Option<u128>
    reasonerKind,   \* which Reasoner the Agent was built with: "generic" | "cua"
    stop_on_message,\* CuaReasonerConfig.stop_on_message
    auto_confirm_text, \* CuaReasonerConfig.auto_confirm_text : Option<String>
    \* ---- CuaReasoner session (CuaState behind the mutex) ----
    st,
    nextId,         \* number of replies the remote service has produced so far
    lastThink,      \* the most recent CuaReasoner::think call (pre-state, reply, result)
    lastSuccess,    \* the most recent CuaReasoner::success call (result, session it read)
    lastCall,       \* the most recent tool-call reply the session received
    hintsSent,      \* requests sent so far that carried the auto-confirmation hint
    successRun,     \* success calls made since the last think call
    \* ---- callers sharing one CuaReasoner (SpecConc) ----
    lockHolder,     \* who holds the tokio Mutex around CuaState
    cpc,            \* each caller's position inside think: "idle" | "sent"
    inflight,       \* each caller's think in progress (session read, snapshot, request)
    owner,          \* the caller whose think put the session into the awaiting state
    \* ---- runs on one Agent and its Reasoner (SpecReuse) ----
    runNo,          \* which run_goal call on this Agent is in progress or returned last
    startSt,        \* the session the Reasoner held when that run_goal was called
    \* ---- CuaClient::parse_output (SpecParse) ----
    parseIn,        \* the service response given to parse_output
    parseOut,       \* what parse_output returned for it
    \* ---- locals of Agent::run_goal ----
    pc,             \* "init" | "loop" | "returned"
    i,              \* loop index of the iteration about to run
    steps,          \* Vec<StepLog>
    metrics,        \* RunMetrics (steps, success)
    last_error,     \* Option<AgentError>
    last_snapshot,  \* Snapshot
    snapCount,      \* snapshots the Computer has produced (fresh ids)
    now,            \* Instant::now() - start, in ms
    ret,            \* what run_goal returned: None | Ok(report) | Err(e)
    calls           \* collaborator calls made by the run so far, in order

vars == << mode, max_steps, timeout_ms, reasonerKind, stop_on_message, auto_confirm_text,
           st, nextId, lastThink, lastSuccess, lastCall, hintsSent, successRun,
           lockHolder, cpc, inflight, owner, runNo, startSt, parseIn, parseOut,
           pc, i, steps, metrics, last_error, last_snapshot, snapCount, now, ret, calls >>

\* ------------------------------------------------------------------ bounds
MaxSteps == 2      \* largest configured max_steps explored
MaxTime == 1       \* the clock is explored up to this many ms after start
MaxReplies == 4    \* service replies explored under SpecCua
MaxLongSteps == 3  \* max_steps of the longer runs explored under SpecLong
MaxMapReplies == 2 \* tool calls in a row explored under SpecMap
MaxSuccessCalls == 3 \* success calls in a row explored under SpecCua
MaxRuns == 2       \* run_goal calls on one Agent explored under SpecReuse
MaxReuseSteps == 1 \* largest max_steps explored under SpecReuse
MaxItems == 3      \* longest output list of a response explored under SpecParse

\* ------------------------------------------------------------------ Option
None == << >>
Some(x) == << x >>
IsSome(o) == o # << >>
IsNone(o) == o = << >>
Unwrap(o) == o[1]

\* Result<T, AgentError>
Ok(v) == [ok |-> TRUE, val |-> Some(v), err |-> None]
Err(e) == [ok |-> FALSE, val |-> None, err |-> Some(e)]

\* ------------------------------------------------------------------ AgentError
ComputerError(m) == [kind |-> "Computer", arg |-> m]
ReasonerError(m) == [kind |-> "Reasoner", arg |-> m]
DeniedError(scope) == [kind |-> "Denied", arg |-> scope]
MemoryError(m) == [kind |-> "Memory", arg |-> m]
OtherError(m) == [kind |-> "Other", arg |-> m]

\* #[error("...")] Display of AgentError
FormatError(e) ==
    CASE e.kind = "Computer" -> "computer error: " \o e.arg
      [] e.kind = "Reasoner" -> "reasoner error: " \o e.arg
      [] e.kind = "Denied"   -> "policy denied: " \o e.arg
      [] e.kind = "Timeout"  -> "timeout: " \o e.arg
      [] e.kind = "Memory"   -> "memory error: " \o e.arg
      [] OTHER               -> "other error: " \o e.arg

\* ------------------------------------------------------------------ Action vocabulary
NoLocator == [by |-> "none", x |-> 0, y |-> 0, selector |-> ""]
Coordinates(x, y) == [by |-> "coordinates", x |-> x, y |-> y, selector |-> ""]
Css(sel) == [by |-> "css", x |-> 0, y |-> 0, selector |-> sel]

MkAction(type, target, text, dx, dy) ==
    [type |-> type, target |-> target, text |-> text, dx |-> dx, dy |-> dy]

\* CuaAction as decoded from the service: kind plus the payload fields
CuaAct(kind, x, y, text) == [kind |-> kind, x |-> x, y |-> y, text |-> text]

\* Variant of map_cua_action: a double click is not supported
map_cua_action_single_click_only(a) ==
    CASE a.kind = "click"        -> Some(MkAction("Click", Coordinates(a.x, a.y), "", 0, 0))
      [] a.kind = "move"         -> Some(MkAction("Hover", Coordinates(a.x, a.y), "", 0, 0))
      [] a.kind = "scroll"       -> Some(MkAction("Scroll", NoLocator, "", a.x, a.y))
      [] a.kind = "type"         -> Some(MkAction("Type", Css("*"), a.text, 0, 0))
      [] a.kind = "keypress"     -> Some(MkAction("Key", NoLocator, a.text, 0, 0))
      [] OTHER                   -> None

\* CuaReasoner::map_cua_action (agent.rs 818-831). The payload of a CuaAct is
\* x, y (coordinates, scroll deltas, or the wait in ms) and text (typed text,
\* key, or the click button); `x as i32` is the identity on the values
\* explored, which are all within i32.
map_cua_action(a) ==
    CASE a.kind = "click"        -> Some(MkAction("Click", Coordinates(a.x, a.y), "", 0, 0))
      [] a.kind = "double_click" -> Some(MkAction("Click", Coordinates(a.x, a.y), "", 0, 0))
      [] a.kind = "move"         -> Some(MkAction("Hover", Coordinates(a.x, a.y), "", 0, 0))
      [] a.kind = "scroll"       -> Some(MkAction("Scroll", NoLocator, "", a.x, a.y))
      [] a.kind = "type"         -> Some(MkAction("Type", Css("*"), a.text, 0, 0))
      [] a.kind = "keypress"     -> Some(MkAction("Key", NoLocator, a.text, 0, 0))
      [] a.kind = "wait"         -> None
      [] a.kind = "drag_path"    -> None
      [] a.kind = "screenshot"   -> None
      [] OTHER                   -> None

\* ------------------------------------------------------------------ Thought
Thought(plan, action) == [plan |-> plan, action |-> action]

\* str::trim on the plan texts the model uses
Trim(s) == IF s \in {" ", "  "} THEN "" ELSE s

\* ------------------------------------------------------------------ CuaReasoner session
\* impl Default for CuaState
CuaStateDefault ==
    [previous |-> None,
     pending_call_id |-> None,
     pending_safety_checks |-> << >>,
     awaiting_screenshot |-> FALSE,
     done_message |-> None]

\* CuaOutput, plus the transport failure of CuaClient::turn / send_computer_output
MessageReply(text) ==
    [kind |-> "message", text |-> text, call_id |-> 0, action |-> CuaAct("unknown", 0, 0, ""),
     requires_screenshot |-> FALSE, response_id |-> 0, safety_checks |-> << >>]
ComputerCallReply(id, action, requires, checks) ==
    [kind |-> "computer_call", text |-> "", call_id |-> id, action |-> action,
     requires_screenshot |-> requires, response_id |-> id, safety_checks |-> checks]
DoneReply(id) ==
    [kind |-> "done", text |-> "", call_id |-> 0, action |-> CuaAct("unknown", 0, 0, ""),
     requires_screenshot |-> FALSE, response_id |-> id, safety_checks |-> << >>]
FailReply ==
    [kind |-> "fail", text |-> "", call_id |-> 0, action |-> CuaAct("unknown", 0, 0, ""),
     requires_screenshot |-> FALSE, response_id |-> 0, safety_checks |-> << >>]

\* No reply: the call sent no request
NoReply ==
    [kind |-> "none", text |-> "", call_id |-> 0, action |-> CuaAct("unknown", 0, 0, ""),
     requires_screenshot |-> FALSE, response_id |-> 0, safety_checks |-> << >>]

\* The service actions the replies draw from: one that maps to a core Action
\* and one that maps to none.
ReplyActions == { CuaAct("click", 1, 2, ""), CuaAct("screenshot", 0, 0, "") }

\* Every reply the service can give as its id-th response.
Replies(id) ==
    { MessageReply("hello"), DoneReply(id), FailReply }
    \cup { ComputerCallReply(id, a, r, c) :
             a \in ReplyActions, r \in BOOLEAN, c \in { << >>, << "check" >> } }

\* `st.previous = st.previous.take()`: take() empties the slot and yields the
\* old value, which the assignment then stores back.
TakeAndAssign(previous) ==
    LET taken == previous
        emptied == None
    IN  taken

\* match arm CuaOutput::Message of the observation-reply path (agent.rs 867-876)
OnMessageAwaiting(s, reply, som) ==
    [s EXCEPT !.previous = TakeAndAssign(s.previous),
              !.pending_call_id = None,
              !.pending_safety_checks = << >>,
              !.awaiting_screenshot = FALSE,
              !.done_message = IF som THEN Some(reply.text) ELSE @]

\* Variant of OnComputerCall: the call id is not recorded
OnComputerCallNoCallId(s, reply) ==
    [s EXCEPT !.previous = Some(reply.response_id),
              !.pending_safety_checks = reply.safety_checks,
              !.awaiting_screenshot = reply.requires_screenshot]

\* match arm CuaOutput::ComputerCall (agent.rs 877-884 and 915-922)
OnComputerCall(s, reply) ==
    [s EXCEPT !.previous = Some(reply.response_id),
              !.pending_call_id = Some(reply.call_id),
              !.pending_safety_checks = reply.safety_checks,
              !.awaiting_screenshot = reply.requires_screenshot]

\* Variant of OnDoneAwaiting: the round-trip is left open
OnDoneAwaitingStaysOpen(s, reply) ==
    [s EXCEPT !.previous = Some(reply.response_id),
              !.done_message = Some("done")]

\* match arm CuaOutput::Done of the observation-reply path (agent.rs 885-892)
OnDoneAwaiting(s, reply) ==
    [s EXCEPT !.previous = Some(reply.response_id),
              !.pending_call_id = None,
              !.pending_safety_checks = << >>,
              !.awaiting_screenshot = FALSE,
              !.done_message = Some("done")]

\* Variant of OnMessageTurn: the message is recorded whatever stop_on_message says
OnMessageTurnAlwaysRecords(s, reply, som) ==
    [s EXCEPT !.previous = TakeAndAssign(s.previous),
              !.done_message = Some(reply.text)]

\* match arm CuaOutput::Message of the new-turn path (agent.rs 908-914)
OnMessageTurn(s, reply, som) ==
    [s EXCEPT !.previous = TakeAndAssign(s.previous),
              !.done_message = IF som THEN Some(reply.text) ELSE @]

\* match arm CuaOutput::Done of the new-turn path (agent.rs 923-927)
OnDoneTurn(s, reply) ==
    [s EXCEPT !.previous = Some(reply.response_id),
              !.done_message = Some("done")]

\* The Thought each reply kind yields
ThoughtOf(reply) ==
    CASE reply.kind = "message"       -> Thought(reply.text, None)
      [] reply.kind = "computer_call" -> Thought("", map_cua_action(reply.action))
      [] OTHER                        -> Thought("done", None)

\* The request CuaReasoner::think sends: an observation reply
\* (send_computer_output) or a new turn (turn).
\* Each request says whether it carries the screenshot, the composed goal
\* instructions, and the extra user text (the auto-confirmation hint).

\* Variant of ObservationRequest: the safety checks are not acknowledged
ObservationRequestNoChecks(s) ==
    [kind |-> "computer_output", call_id |-> s.pending_call_id,
     previous |-> s.previous, safety_checks |-> << >>,
     image |-> TRUE, instructions |-> FALSE, extra |-> None]

\* send_computer_output as think calls it (agent.rs 855-862, cua.rs 133-166)
ObservationRequest(s) ==
    [kind |-> "computer_output", call_id |-> s.pending_call_id,
     previous |-> s.previous, safety_checks |-> s.pending_safety_checks,
     image |-> TRUE, instructions |-> FALSE, extra |-> None]

\* Variant of ExtraUserText: the hint goes with every new-turn request
ExtraUserTextAlways(s) == auto_confirm_text

\* `if st.previous.is_none() { self.cfg.auto_confirm_text.clone() } else { None }`
ExtraUserText(s) == IF IsNone(s.previous) THEN auto_confirm_text ELSE None

\* CuaClient::turn as think calls it (agent.rs 897-903)
TurnRequest(s) ==
    [kind |-> "turn", call_id |-> None, previous |-> s.previous, safety_checks |-> << >>,
     image |-> FALSE, instructions |-> TRUE, extra |-> ExtraUserText(s)]

ThinkOut(res, s, req, reply) == [res |-> res, st |-> s, req |-> req, reply |-> reply]

\* Variant of OnTransportFailure: the call id is forgotten on failure
OnTransportFailureDropsCallId(s) == [s EXCEPT !.pending_call_id = None]

\* Variant of OnTransportFailure: the round-trip is abandoned on failure
OnTransportFailureResets(s) ==
    [s EXCEPT !.pending_call_id = None, !.awaiting_screenshot = FALSE]

\* The state a failed remote call leaves behind: `?` returns before any write.
OnTransportFailure(s) == s

\* send_computer_output and the match on its reply (agent.rs 855-893)
SendObservation(s, reply, som) ==
    LET req == Some(ObservationRequest(s)) IN
    CASE reply.kind = "fail" ->
           ThinkOut(Err(ReasonerError("transport")), OnTransportFailure(s), req, reply)
      [] reply.kind = "message" ->
           ThinkOut(Ok(ThoughtOf(reply)), OnMessageAwaiting(s, reply, som), req, reply)
      [] reply.kind = "computer_call" ->
           ThinkOut(Ok(ThoughtOf(reply)), OnComputerCall(s, reply), req, reply)
      [] OTHER ->
           ThinkOut(Ok(ThoughtOf(reply)), OnDoneAwaiting(s, reply), req, reply)

\* Variant of ThinkAwaiting: the observation reply is sent whether or not
\* the snapshot carries an image
ThinkAwaitingNoImageCheck(s, snapshot, reply, som) ==
    IF IsNone(s.pending_call_id)
    THEN ThinkOut(Err(ReasonerError("missing call_id")), s, None, NoReply)
    ELSE SendObservation(s, reply, som)

\* CuaReasoner::think, observation-reply path (agent.rs 846-894)
ThinkAwaiting(s, snapshot, reply, som) ==
    IF ~snapshot.image
    THEN ThinkOut(Err(ReasonerError("missing snapshot image")), s, None, NoReply)
    ELSE IF IsNone(s.pending_call_id)
    THEN ThinkOut(Err(ReasonerError("missing call_id")), s, None, NoReply)
    ELSE SendObservation(s, reply, som)

\* CuaReasoner::think, new-turn path (agent.rs 896-928)
ThinkTurn(s, snapshot, reply, som) ==
    LET req == Some(TurnRequest(s)) IN
    CASE reply.kind = "fail" ->
           ThinkOut(Err(ReasonerError("transport")), OnTransportFailure(s), req, reply)
      [] reply.kind = "message" ->
           ThinkOut(Ok(ThoughtOf(reply)), OnMessageTurn(s, reply, som), req, reply)
      [] reply.kind = "computer_call" ->
           ThinkOut(Ok(ThoughtOf(reply)), OnComputerCall(s, reply), req, reply)
      [] OTHER ->
           ThinkOut(Ok(ThoughtOf(reply)), OnDoneTurn(s, reply), req, reply)

\* Variant of CuaThink: every call starts a new turn
CuaThinkAlwaysTurn(s, snapshot, reply, som) == ThinkTurn(s, snapshot, reply, som)

\* CuaReasoner::think
CuaThink(s, snapshot, reply, som) ==
    IF s.awaiting_screenshot
    THEN ThinkAwaiting(s, snapshot, reply, som)
    ELSE ThinkTurn(s, snapshot, reply, som)

\* Variant of CuaSuccess: only the explicit done signal counts as completion
CuaSuccessDoneOnly(s, som) == som /\ s.done_message = Some("done")

\* Variant of CuaSuccess: an explicit done signal ends the run even without
\* stop_on_message
CuaSuccessOnDone(s, som) ==
    IF som THEN IsSome(s.done_message) ELSE s.done_message = Some("done")

\* Variant of CuaSuccess: the stop_on_message setting is not consulted
CuaSuccessIgnoresConfig(s, som) == IsSome(s.done_message)

\* CuaReasoner::success (agent.rs 931-943)
CuaSuccess(s, som) == IF som THEN IsSome(s.done_message) ELSE FALSE

\* Snapshot: a fresh id and whether it carries an image payload
Snapshot(id, image) == [id |-> id, image |-> image]

\* The record kept of a think call
ThinkRecord(pre, snapshot, out) ==
    [pre |-> pre, snapshot |-> snapshot, reply |-> out.reply, res |-> out.res, req |-> out.req]
NoThink == None

\* The record kept of a success call
SuccessRecord(res, pre) == [res |-> res, pre |-> pre]

\* What a think call leaves behind in the session and in the records of it
Remember(pre, snapshot, out) ==
    /\ st' = out.st
    /\ nextId' = IF IsSome(out.req) THEN nextId + 1 ELSE nextId
    /\ lastThink' = Some(ThinkRecord(pre, snapshot, out))
    /\ lastCall' = IF out.reply.kind = "computer_call" THEN Some(out.reply) ELSE lastCall
    /\ hintsSent' = IF IsSome(out.req) /\ IsSome(Unwrap(out.req).extra)
                    THEN hintsSent + 1 ELSE hintsSent
    /\ successRun' = 0

\* ------------------------------------------------------------------ run controller data
\* impl Default for RunMetrics
MetricsDefault == [steps |-> 0, time_ms |-> 0, success |-> FALSE]

\* Approval (granted, scope); the reason text plays no part in the loop
Approval(granted, scope) == [granted |-> granted, scope |-> scope]

\* What PolicyEngine::approve can answer
Approvals ==
    { Approval(TRUE, None), Approval(FALSE, None), Approval(FALSE, Some("Network")) }

\* `approval.scope.unwrap_or(Scope::BrowserNavigate)`
DeniedScope(approval) ==
    IF IsSome(approval.scope) THEN Unwrap(approval.scope) ELSE "BrowserNavigate"

\* Variant of DeniedLastError: the denial is not remembered
DeniedLastErrorDropped(approval) == None

\* `last_error = Some(AgentError::Denied(..))` (agent.rs 363-365)
DeniedLastError(approval) == Some(DeniedError(DeniedScope(approval)))

\* Variant of NewStepLog: step indices count from one
NewStepLogOneBased(idx, thought) ==
    [step |-> idx + 1, plan |-> thought.plan, action |-> thought.action, approval |-> None,
     result_hint |-> "", snapshot_id |-> None, error |-> None]

\* The StepLog built right after think (agent.rs 339-348)
NewStepLog(idx, thought) ==
    [step |-> idx, plan |-> thought.plan, action |-> thought.action, approval |-> None,
     result_hint |-> "", snapshot_id |-> None, error |-> None]

\* RunReport as assembled by Agent::finish (agent.rs 441-449)
Report(status, m, log, snap, msg, err) ==
    [status |-> status, metrics |-> m, steps |-> log, last_snapshot |-> Some(snap),
     error |-> IF IsSome(err) THEN err ELSE Some(msg)]

\* One collaborator call of the run: which iteration made it (-1 before the
\* loop), which operation, how it came out, the error it was given (think) or
\* returned (act), and the action it was given (approve, act) or returned (think).
Call(iter, op, out, err, action) ==
    [iter |-> iter, op |-> op, out |-> out, err |-> err, action |-> action]

\* Thoughts an arbitrary Reasoner may return: a message, a blank plan with
\* no action, and an action.
ClickAction == MkAction("Click", Coordinates(1, 2), "", 0, 0)
GenericThoughts ==
    { Thought("go", None), Thought(" ", None), Thought("go", Some(ClickAction)) }

\* Whether snapshots carry an image matters to the CuaReasoner only.
ImageChoices == IF reasonerKind = "cua" THEN BOOLEAN ELSE {TRUE}

\* Variant of InLoop: an inclusive range, `0..=max_steps`
InLoopInclusive == pc = "loop" /\ i <= max_steps

\* `for i in 0..self.cfg.max_steps`: the loop has an iteration left to run
InLoop == pc = "loop" /\ i < max_steps

\* the range is exhausted and control falls out of the loop
LoopDone == pc = "loop" /\ ~InLoop

\* Variant of DeadlinePassed: a strict comparison, `Instant::now() > d`
DeadlinePassedStrict == IsSome(timeout_ms) /\ now > Unwrap(timeout_ms)

\* `Instant::now() >= d` for `d = start + timeout_ms` (agent.rs 292-296); the
\* timeouts explored are far below 2^64, where `ms as u64` is the identity.
DeadlinePassed == IsSome(timeout_ms) /\ now >= Unwrap(timeout_ms)

\* Reasoner::success as the run sees it
SuccessResults ==
    IF reasonerKind = "cua"
    THEN { Ok(CuaSuccess(st, stop_on_message)) }
    ELSE { Ok(TRUE), Ok(FALSE), Err(ReasonerError("success failed")) }

\* Reasoner::think as the run sees it: the result and the session it leaves
ThinkResults ==
    IF reasonerKind = "cua"
    THEN { CuaThink(st, last_snapshot, r, stop_on_message) : r \in Replies(nextId + 1) }
    ELSE { ThinkOut(Ok(t), st, None, NoReply) : t \in GenericThoughts }
         \cup { ThinkOut(Err(ReasonerError("think failed")), st, None, NoReply) }

\* ------------------------------------------------------------------ Agent::run_goal
Config == << mode, max_steps, timeout_ms, reasonerKind, stop_on_message, auto_confirm_text >>
Session == << st, nextId, lastThink, lastSuccess, lastCall, hintsSent, successRun >>
Conc == << lockHolder, cpc, inflight, owner >>
Aux == << runNo, startSt, parseIn, parseOut >>
Run == << pc, i, steps, metrics, last_error, last_snapshot, snapCount, now, ret, calls >>

\* What a think call leaves in the reasoner (nothing, for an arbitrary Reasoner)
AfterThink(out) ==
    IF reasonerKind = "cua"
    THEN /\ Remember(st, last_snapshot, out)
         /\ lastSuccess' = Some(SuccessRecord(CuaSuccess(st, stop_on_message), st))
    ELSE UNCHANGED Session

\* The calls an iteration that reaches think has made by then
ThinkCalls(out) ==
    << Call(i, "success", "false", None, None),
       IF out.res.ok
       THEN Call(i, "think", "ok", last_error, Unwrap(out.res.val).action)
       ELSE Call(i, "think", "err", last_error, None) >>

\* `return Err(e)` out of run_goal (the `?` operator)
ReturnErr(e) ==
    /\ ret' = Some(Err(e))
    /\ pc' = "returned"

\* Variant of finish: the report is returned without notifying run end
finishUnnotified(log, m, snap, status, msg, err, made) ==
    /\ calls' = calls \o made
    /\ ret' = Some(Ok(Report(status, m, log, snap, msg, err)))
    /\ pc' = "returned"

\* Agent::finish (agent.rs 430-453): assemble the report, write_run_end, return
finish(log, m, snap, status, msg, err, made) ==
    \E written \in BOOLEAN :
        /\ calls' = calls \o made
                    \o << Call(i, "write_run_end", IF written THEN "ok" ELSE "err", None, None) >>
        /\ ret' = IF written
                  THEN Some(Ok(Report(status, m, log, snap, msg, err)))
                  ELSE Some(Err(MemoryError("write_run_end failed")))
        /\ pc' = "returned"

\* Variant of RecordStep: a failed write_step is ignored and the run goes on
RecordStepLossy(step_log, made, err, snap) ==
    \E written \in BOOLEAN :
        /\ calls' = calls \o made
                    \o << Call(i, "write_step", IF written THEN "ok" ELSE "err", None, None) >>
        /\ steps' = Append(steps, step_log)
        /\ i' = i + 1
        /\ last_error' = err
        /\ last_snapshot' = snap
        /\ UNCHANGED << pc, ret >>

\* `self.memory.write_step(..).await?; steps.push(step_log); continue`
\* (agent.rs 354-356, 367-370, 398-399, 406-408)
RecordStep(step_log, made, err, snap) ==
    \E written \in BOOLEAN :
        /\ calls' = calls \o made
                    \o << Call(i, "write_step", IF written THEN "ok" ELSE "err", None, None) >>
        /\ IF written
           THEN /\ steps' = Append(steps, step_log)
                /\ i' = i + 1
                /\ last_error' = err
                /\ last_snapshot' = snap
                /\ UNCHANGED << pc, ret >>
           ELSE /\ ReturnErr(MemoryError("write_step failed"))
                /\ UNCHANGED << steps, i, last_error, last_snapshot >>

\* agent.rs 277: write_run_start fails
RunStartFails ==
    /\ pc = "init"
    /\ calls' = calls \o << Call(-1, "write_run_start", "err", None, None) >>
    /\ ReturnErr(MemoryError("write_run_start failed"))
    /\ UNCHANGED << Config, Aux, Conc, Session, i, steps, metrics, last_error, last_snapshot,
                    snapCount, now >>

\* agent.rs 279-282: the initial open_url / snapshot fails
InitialObservationFails ==
    /\ pc = "init"
    /\ calls' = calls \o << Call(-1, "write_run_start", "ok", None, None),
                            Call(-1, "observe", "err", None, None) >>
    /\ ReturnErr(ComputerError("observe failed"))
    /\ UNCHANGED << Config, Aux, Conc, Session, i, steps, metrics, last_error, last_snapshot,
                    snapCount, now >>

\* agent.rs 271-292: run start and initial observation succeed
RunStart ==
    /\ pc = "init"
    /\ \E image \in ImageChoices :
           last_snapshot' = Snapshot(snapCount + 1, image)
    /\ snapCount' = snapCount + 1
    /\ calls' = calls \o << Call(-1, "write_run_start", "ok", None, None),
                            Call(-1, "observe", "ok", None, None) >>
    /\ pc' = "loop"
    /\ UNCHANGED << Config, Aux, Conc, Session, i, steps, metrics, last_error, now, ret >>

\* Time passes between the awaits of the run.
Tick ==
    /\ pc \in {"init", "loop"}
    /\ now < MaxTime
    /\ now' = now + 1
    /\ UNCHANGED << Config, Aux, Conc, Session, pc, i, steps, metrics, last_error, last_snapshot,
                    snapCount, ret, calls >>

\* agent.rs 295-310: the deadline has passed when the iteration begins
DeadlineExit ==
    /\ InLoop
    /\ DeadlinePassed
    /\ finish(steps, metrics, last_snapshot, "Timeout", "Run budget exceeded", None, << >>)
    /\ UNCHANGED << Config, Aux, Conc, Session, i, steps, metrics, last_error, last_snapshot,
                    snapCount, now >>

\* agent.rs 312-315: Reasoner::success returns an error
GoalCheckFails ==
    /\ InLoop
    /\ ~DeadlinePassed
    /\ \E r \in SuccessResults :
           /\ ~r.ok
           /\ ReturnErr(Unwrap(r.err))
    /\ calls' = Append(calls, Call(i, "success", "err", None, None))
    /\ UNCHANGED << Config, Aux, Conc, Session, i, steps, metrics, last_error, last_snapshot,
                    snapCount, now >>

\* Variant of GoalMet: the iteration that met the goal is counted as a step
GoalMetCountsIteration ==
    /\ InLoop
    /\ ~DeadlinePassed
    /\ Ok(TRUE) \in SuccessResults
    /\ metrics' = [steps |-> i + 1, time_ms |-> now, success |-> TRUE]
    /\ finish(steps, metrics', last_snapshot, "Success", "Goal met", None,
              << Call(i, "success", "true", None, None) >>)
    /\ lastSuccess' = IF reasonerKind = "cua"
                      THEN Some(SuccessRecord(CuaSuccess(st, stop_on_message), st))
                      ELSE lastSuccess
    /\ successRun' = IF reasonerKind = "cua" THEN successRun + 1 ELSE successRun
    /\ UNCHANGED << Config, Aux, Conc, st, nextId, lastThink, lastCall, hintsSent, i, steps,
                    last_error, last_snapshot, snapCount, now >>

\* agent.rs 316-332: the goal is met
GoalMet ==
    /\ InLoop
    /\ ~DeadlinePassed
    /\ Ok(TRUE) \in SuccessResults
    /\ metrics' = [steps |-> i, time_ms |-> now, success |-> TRUE]
    /\ finish(steps, metrics', last_snapshot, "Success", "Goal met", None,
              << Call(i, "success", "true", None, None) >>)
    /\ lastSuccess' = IF reasonerKind = "cua"
                      THEN Some(SuccessRecord(CuaSuccess(st, stop_on_message), st))
                      ELSE lastSuccess
    /\ successRun' = IF reasonerKind = "cua" THEN successRun + 1 ELSE successRun
    /\ UNCHANGED << Config, Aux, Conc, st, nextId, lastThink, lastCall, hintsSent, i, steps,
                    last_error, last_snapshot, snapCount, now >>

\* The iteration gets as far as think: deadline not passed, goal not met
ReachesThink ==
    /\ InLoop
    /\ ~DeadlinePassed
    /\ Ok(FALSE) \in SuccessResults

\* Variant of ThinkFails: the error is logged as an "error" step, remembered,
\* and the loop continues
ThinkFailsRecorded ==
    /\ ReachesThink
    /\ \E out \in ThinkResults :
           /\ ~out.res.ok
           /\ AfterThink(out)
           /\ RecordStep([NewStepLog(i, Thought("", None)) EXCEPT
                              !.error = Some(FormatError(Unwrap(out.res.err))),
                              !.result_hint = "error"],
                         ThinkCalls(out), out.res.err, last_snapshot)
    /\ UNCHANGED << Config, Aux, Conc, metrics, snapCount, now >>

\* Variant of ThinkFails: the failure ends the run with a report of status Error
ThinkFailsReportsError ==
    /\ ReachesThink
    /\ \E out \in ThinkResults :
           /\ ~out.res.ok
           /\ AfterThink(out)
           /\ finish(steps, metrics, last_snapshot, "Error", "Reasoner failed",
                     Some(FormatError(Unwrap(out.res.err))), ThinkCalls(out))
    /\ UNCHANGED << Config, Aux, Conc, i, steps, metrics, last_error, last_snapshot, snapCount, now >>

\* agent.rs 334-337: Reasoner::think returns an error
ThinkFails ==
    /\ ReachesThink
    /\ \E out \in ThinkResults :
           /\ ~out.res.ok
           /\ AfterThink(out)
           /\ ReturnErr(Unwrap(out.res.err))
           /\ calls' = calls \o ThinkCalls(out)
    /\ UNCHANGED << Config, Aux, Conc, i, steps, metrics, last_error, last_snapshot, snapCount, now >>

\* Variant of MessageStep: a message step clears the remembered error
MessageStepClearsError ==
    /\ ReachesThink
    /\ \E out \in ThinkResults :
           /\ out.res.ok
           /\ LET thought == Unwrap(out.res.val) IN
              /\ IsNone(thought.action) /\ Trim(thought.plan) # ""
              /\ AfterThink(out)
              /\ RecordStep([NewStepLog(i, thought) EXCEPT !.result_hint = "message"],
                            ThinkCalls(out), None, last_snapshot)
    /\ UNCHANGED << Config, Aux, Conc, metrics, snapCount, now >>

\* Variant of MessageStep: a message step also observes the device
MessageStepObserves ==
    /\ ReachesThink
    /\ \E out \in ThinkResults :
           /\ out.res.ok
           /\ LET thought == Unwrap(out.res.val) IN
              /\ IsNone(thought.action) /\ Trim(thought.plan) # ""
              /\ AfterThink(out)
              /\ RecordStep([NewStepLog(i, thought) EXCEPT !.result_hint = "message"],
                            ThinkCalls(out) \o << Call(i, "snapshot", "ok", None, None) >>,
                            last_error, Snapshot(snapCount + 1, TRUE))
    /\ snapCount' = snapCount + 1
    /\ UNCHANGED << Config, Aux, Conc, metrics, now >>

\* agent.rs 351-357: no action, non-blank plan
MessageStep ==
    /\ ReachesThink
    /\ \E out \in ThinkResults :
           /\ out.res.ok
           /\ LET thought == Unwrap(out.res.val) IN
              /\ IsNone(thought.action) /\ Trim(thought.plan) # ""
              /\ AfterThink(out)
              /\ RecordStep([NewStepLog(i, thought) EXCEPT !.result_hint = "message"],
                            ThinkCalls(out), last_error, last_snapshot)
    /\ UNCHANGED << Config, Aux, Conc, metrics, snapCount, now >>

\* agent.rs 360: PolicyEngine::approve returns an error
PolicyFails ==
    /\ ReachesThink
    /\ \E out \in ThinkResults :
           /\ out.res.ok
           /\ LET thought == Unwrap(out.res.val) IN
              /\ IsSome(thought.action)
              /\ AfterThink(out)
              /\ calls' = calls \o ThinkCalls(out)
                          \o << Call(i, "approve", "err", None, thought.action) >>
              /\ ReturnErr(OtherError("approve failed"))
    /\ UNCHANGED << Config, Aux, Conc, i, steps, metrics, last_error, last_snapshot, snapCount, now >>

\* Variant of DeniedStep: the denial is returned to the caller
DeniedStepAborts ==
    /\ ReachesThink
    /\ \E out \in ThinkResults, approval \in Approvals :
           /\ out.res.ok
           /\ LET thought == Unwrap(out.res.val) IN
              /\ IsSome(thought.action)
              /\ ~approval.granted
              /\ AfterThink(out)
              /\ calls' = calls \o ThinkCalls(out)
                          \o << Call(i, "approve", "denied", None, thought.action) >>
              /\ ReturnErr(DeniedError(DeniedScope(approval)))
    /\ UNCHANGED << Config, Aux, Conc, i, steps, metrics, last_error, last_snapshot, snapCount, now >>

\* agent.rs 362-371: the policy denies the action
DeniedStep ==
    /\ ReachesThink
    /\ \E out \in ThinkResults, approval \in Approvals :
           /\ out.res.ok
           /\ LET thought == Unwrap(out.res.val) IN
              /\ IsSome(thought.action)
              /\ ~approval.granted
              /\ AfterThink(out)
              /\ RecordStep([NewStepLog(i, thought) EXCEPT !.approval = Some(approval),
                                                          !.result_hint = "denied"],
                            ThinkCalls(out)
                            \o << Call(i, "approve", "denied", None, thought.action) >>,
                            DeniedLastError(approval), last_snapshot)
    /\ UNCHANGED << Config, Aux, Conc, metrics, snapCount, now >>

\* What Computer::act can return: a fresh snapshot with the change signal, or
\* a device error.
ActResults ==
    { Ok([snapshot |-> Snapshot(snapCount + 1, image), changed |-> changed]) :
        image \in ImageChoices, changed \in BOOLEAN }
    \cup { Err(ComputerError("act failed")) }

\* Variant of ResultStep: a failed step is logged but its error is not
\* remembered for the next think
ResultStepForgetsError(step_log, result, made) ==
    IF result.ok
    THEN LET out == Unwrap(result.val) IN
         /\ snapCount' = snapCount + 1
         /\ RecordStep([step_log EXCEPT
                           !.result_hint = IF out.changed THEN "changed" ELSE "unchanged",
                           !.snapshot_id = Some(out.snapshot.id)],
                       made, None, out.snapshot)
    ELSE LET err == Unwrap(result.err) IN
         /\ snapCount' = snapCount
         /\ RecordStep([step_log EXCEPT !.error = Some(FormatError(err)),
                                        !.result_hint = "error"],
                       made, None, last_snapshot)

\* Variant of ResultStep: a successful step is logged but the last snapshot
\* is not replaced
ResultStepKeepsSnapshot(step_log, result, made) ==
    IF result.ok
    THEN LET out == Unwrap(result.val) IN
         /\ snapCount' = snapCount + 1
         /\ RecordStep([step_log EXCEPT
                           !.result_hint = IF out.changed THEN "changed" ELSE "unchanged",
                           !.snapshot_id = Some(out.snapshot.id)],
                       made, None, last_snapshot)
    ELSE LET err == Unwrap(result.err) IN
         /\ snapCount' = snapCount
         /\ RecordStep([step_log EXCEPT !.error = Some(FormatError(err)),
                                        !.result_hint = "error"],
                       made, Some(err), last_snapshot)

\* agent.rs 385-410: the step a result of act / the no-op observation yields
ResultStep(step_log, result, made) ==
    IF result.ok
    THEN LET out == Unwrap(result.val) IN
         /\ snapCount' = snapCount + 1
         /\ RecordStep([step_log EXCEPT
                           !.result_hint = IF out.changed THEN "changed" ELSE "unchanged",
                           !.snapshot_id = Some(out.snapshot.id)],
                       made, None, out.snapshot)
    ELSE LET err == Unwrap(result.err) IN
         /\ snapCount' = snapCount
         /\ RecordStep([step_log EXCEPT !.error = Some(FormatError(err)),
                                        !.result_hint = "error"],
                       made, Some(err), last_snapshot)

\* Variant of ActStep: the action is executed whatever the Policy answered
ActStepUnchecked ==
    /\ ReachesThink
    /\ \E out \in ThinkResults, approval \in Approvals, result \in ActResults :
           /\ out.res.ok
           /\ LET thought == Unwrap(out.res.val) IN
              /\ IsSome(thought.action)
              /\ AfterThink(out)
              /\ ResultStep([NewStepLog(i, thought) EXCEPT !.approval = Some(approval)],
                            result,
                            ThinkCalls(out)
                            \o << Call(i, "approve",
                                       IF approval.granted THEN "granted" ELSE "denied",
                                       None, thought.action),
                                  Call(i, "act", IF result.ok THEN "ok" ELSE "err",
                                       result.err, thought.action) >>)
    /\ UNCHANGED << Config, Aux, Conc, metrics, now >>

\* agent.rs 359-376, 385-410: the action is approved and executed
ActStep ==
    /\ ReachesThink
    /\ \E out \in ThinkResults, approval \in Approvals, result \in ActResults :
           /\ out.res.ok
           /\ LET thought == Unwrap(out.res.val) IN
              /\ IsSome(thought.action)
              /\ approval.granted
              /\ AfterThink(out)
              /\ ResultStep([NewStepLog(i, thought) EXCEPT !.approval = Some(approval)],
                            result,
                            ThinkCalls(out)
                            \o << Call(i, "approve", "granted", None, thought.action),
                                  Call(i, "act", IF result.ok THEN "ok" ELSE "err",
                                       result.err, thought.action) >>)
    /\ UNCHANGED << Config, Aux, Conc, metrics, now >>

\* agent.rs 377-383, 385-401: no action and a blank plan, the no-op observation
NoopStep ==
    /\ ReachesThink
    /\ \E out \in ThinkResults, image \in ImageChoices :
           /\ out.res.ok
           /\ LET thought == Unwrap(out.res.val) IN
              /\ IsNone(thought.action) /\ Trim(thought.plan) = ""
              /\ AfterThink(out)
              /\ ResultStep(NewStepLog(i, thought),
                            Ok([snapshot |-> Snapshot(snapCount + 1, image),
                                changed |-> FALSE]),
                            ThinkCalls(out) \o << Call(i, "snapshot", "ok", None, None) >>)
    /\ UNCHANGED << Config, Aux, Conc, metrics, now >>

\* agent.rs 379: the no-op observation fails, `?` returns the error
NoopObservationFails ==
    /\ ReachesThink
    /\ \E out \in ThinkResults :
           /\ out.res.ok
           /\ LET thought == Unwrap(out.res.val) IN
              /\ IsNone(thought.action) /\ Trim(thought.plan) = ""
              /\ AfterThink(out)
              /\ calls' = calls \o ThinkCalls(out)
                          \o << Call(i, "snapshot", "err", None, None) >>
    /\ ReturnErr(ComputerError("snapshot failed"))
    /\ UNCHANGED << Config, Aux, Conc, i, steps, metrics, last_error, last_snapshot, snapCount, now >>

\* Variant of BudgetExit: the remembered error is not carried into the report
BudgetExitDropsError ==
    /\ LoopDone
    /\ metrics' = [steps |-> max_steps, time_ms |-> now, success |-> FALSE]
    /\ finish(steps, metrics', last_snapshot, "Timeout", "Step budget exceeded", None, << >>)
    /\ UNCHANGED << Config, Aux, Conc, Session, i, steps, last_error, last_snapshot, snapCount, now >>

\* Variant of BudgetExit: the goal is checked once more after the loop
BudgetExitChecksGoal ==
    /\ LoopDone
    /\ \E met \in BOOLEAN :
           /\ Ok(met) \in SuccessResults
           /\ metrics' = [steps |-> max_steps, time_ms |-> now, success |-> met]
           /\ finish(steps, metrics', last_snapshot,
                     IF met THEN "Success" ELSE "Timeout",
                     IF met THEN "Goal met" ELSE "Step budget exceeded",
                     IF ~met /\ IsSome(last_error)
                     THEN Some(FormatError(Unwrap(last_error))) ELSE None,
                     << >>)
    /\ UNCHANGED << Config, Aux, Conc, Session, i, steps, last_error, last_snapshot, snapCount, now >>

\* agent.rs 413-427: the loop ran out of iterations
BudgetExit ==
    /\ LoopDone
    /\ metrics' = [steps |-> max_steps, time_ms |-> now, success |-> FALSE]
    /\ finish(steps, metrics', last_snapshot, "Timeout", "Step budget exceeded",
              IF IsSome(last_error) THEN Some(FormatError(Unwrap(last_error))) ELSE None,
              << >>)
    /\ UNCHANGED << Config, Aux, Conc, Session, i, steps, last_error, last_snapshot, snapCount, now >>

\* CuaReasoner::new / with_config: a default session, nothing sent yet
SessionInit ==
    /\ st = CuaStateDefault
    /\ nextId = 0
    /\ lastThink = NoThink
    /\ lastSuccess = None
    /\ lastCall = None
    /\ hintsSent = 0
    /\ successRun = 0

\* The callers that may share one CuaReasoner (it is Clone over an Arc)
Callers == { "A", "B" }

\* The mutex is free and no caller is inside think
ConcInit ==
    /\ lockHolder = None
    /\ cpc = [c \in Callers |-> "idle"]
    /\ inflight = [c \in Callers |-> None]
    /\ owner = None

\* The first run on the Agent; no response has been parsed
AuxInit ==
    /\ runNo = 1
    /\ startSt = CuaStateDefault
    /\ parseIn = [id |-> None, output |-> None]
    /\ parseOut = None

\* The timeouts a Goal is given: none, or 0..MaxTime ms
Timeouts == { None } \cup { Some(ms) : ms \in 0..MaxTime }

Init ==
    /\ mode = "agent"
    /\ max_steps \in 0..MaxSteps
    /\ timeout_ms \in Timeouts
    /\ reasonerKind \in {"generic", "cua"}
    /\ stop_on_message \in IF reasonerKind = "cua" THEN BOOLEAN ELSE {TRUE}
    /\ auto_confirm_text = Some("Yes, proceed")
    /\ SessionInit
    /\ ConcInit
    /\ AuxInit
    /\ pc = "init"
    /\ i = 0
    /\ steps = << >>
    /\ metrics = MetricsDefault
    /\ last_error = None
    /\ last_snapshot = Snapshot(0, FALSE)
    /\ snapCount = 0
    /\ now = 0
    /\ ret = None
    /\ calls = << >>

Next ==
    \/ RunStartFails
    \/ InitialObservationFails
    \/ RunStart
    \/ Tick
    \/ DeadlineExit
    \/ GoalCheckFails
    \/ GoalMet
    \/ ThinkFails
    \/ MessageStep
    \/ PolicyFails
    \/ DeniedStep
    \/ ActStep
    \/ NoopStep
    \/ NoopObservationFails
    \/ BudgetExit

Spec == Init /\ [][Next]_vars

\* The locals of a fresh run_goal call (agent.rs 266-292): run_goal keeps
\* nothing from an earlier call, and gets a new Goal with its own timeout.
\* Snapshot ids and the call log are counted per run.
FreshRun ==
    /\ pc = "returned"
    /\ runNo < MaxRuns
    /\ runNo' = runNo + 1
    /\ startSt' = st
    /\ timeout_ms' \in { None, Some(0) }
    /\ pc' = "init"
    /\ i' = 0
    /\ steps' = << >>
    /\ metrics' = MetricsDefault
    /\ last_error' = None
    /\ last_snapshot' = Snapshot(0, FALSE)
    /\ snapCount' = 0
    /\ now' = 0
    /\ ret' = None
    /\ calls' = << >>
    /\ UNCHANGED << mode, max_steps, reasonerKind, stop_on_message, auto_confirm_text,
                    parseIn, parseOut, Conc, nextId, lastThink, lastSuccess, lastCall,
                    hintsSent, successRun >>

\* Variant of RunAgain: run_goal starts by resetting the Reasoner's session
RunAgainFreshSession ==
    /\ FreshRun
    /\ st' = CuaStateDefault

\* run_goal is called again on the same Agent, hence the same Reasoner:
\* no line of run_goal (agent.rs 266-292) touches the Reasoner before the loop
RunAgain ==
    /\ FreshRun
    /\ st' = st

\* An Agent around a stop-on-message CuaReasoner, running one goal after
\* another; the first goal has no timeout
InitReuse ==
    /\ mode = "agent"
    /\ max_steps \in 0..MaxReuseSteps
    /\ timeout_ms = None
    /\ reasonerKind = "cua"
    /\ stop_on_message = TRUE
    /\ auto_confirm_text = Some("Yes, proceed")
    /\ SessionInit
    /\ ConcInit
    /\ AuxInit
    /\ pc = "init"
    /\ i = 0
    /\ steps = << >>
    /\ metrics = MetricsDefault
    /\ last_error = None
    /\ last_snapshot = Snapshot(0, FALSE)
    /\ snapCount = 0
    /\ now = 0
    /\ ret = None
    /\ calls = << >>

\* The steps of Next that a CuaReasoner allows (its success never returns an
\* error, agent.rs 931-943), and the next call of run_goal
NextReuse ==
    \/ RunStartFails
    \/ InitialObservationFails
    \/ RunStart
    \/ Tick
    \/ DeadlineExit
    \/ GoalMet
    \/ ThinkFails
    \/ MessageStep
    \/ PolicyFails
    \/ DeniedStep
    \/ ActStep
    \/ NoopStep
    \/ NoopObservationFails
    \/ BudgetExit
    \/ RunAgain

SpecReuse == InitReuse /\ [][NextReuse]_vars

\* ------------------------------------------------- CuaClient::parse_output
\* A JSON action object of a computer_call item: the fields decode_action reads
RawAction(type, x, y) == [type |-> type, x |-> x, y |-> y]

\* decode_action (cua.rs 273-326): the kind defaults to "unknown", absent
\* numbers to 0 (300 for a wait); it never fails. Drag points are not modelled.
decode_action(v) ==
    LET kind == IF IsSome(v.type) THEN Unwrap(v.type) ELSE "unknown"
        x == IF IsSome(v.x) THEN Unwrap(v.x) ELSE 0
        y == IF IsSome(v.y) THEN Unwrap(v.y) ELSE 0
    IN  CASE kind = "screenshot" -> CuaAct("screenshot", 0, 0, "")
          [] kind \in { "click", "double_click", "move", "scroll" } -> CuaAct(kind, x, y, "")
          [] kind \in { "type", "keypress" } -> CuaAct(kind, 0, 0, "")
          [] kind \in { "drag", "drag_path" } -> CuaAct("drag_path", 0, 0, "")
          [] kind \in { "wait", "wait_ms" } -> CuaAct("wait", 300, 0, "")
          [] OTHER -> CuaAct("unknown", 0, 0, kind)

\* One element of the response's "output" array: the fields parse_output
\* reads from it, each possibly absent
OutputItem(type, text, call_id, requires, action) ==
    [type |-> type, text |-> text, call_id |-> call_id,
     requires_screenshot |-> requires, action |-> action,
     pending_safety_checks |-> None]

\* The items responses are built from: two tool calls (one with every
\* optional field absent), messages with and without text, a done item, an
\* item of another type and an item without a type.
OutputItems ==
    { OutputItem(Some("computer_call"), None, Some("c1"), Some(FALSE),
                 Some(RawAction(Some("click"), Some(1), Some(2)))),
      OutputItem(Some("computer_call"), None, None, None, None),
      OutputItem(Some("message"), Some("a"), None, None, None),
      OutputItem(Some("message"), Some("b"), None, None, None),
      OutputItem(Some("message"), None, None, None, None),
      OutputItem(Some("done"), None, None, None, None),
      OutputItem(Some("reasoning"), None, None, None, None),
      OutputItem(None, Some("a"), None, None, None) }

\* The CuaOutput::ComputerCall built from a computer_call item (cua.rs 204-236)
ComputerCallOf(o, response_id) ==
    [ComputerCallReply(response_id,
                       IF IsSome(o.action) THEN decode_action(Unwrap(o.action))
                       ELSE CuaAct("unknown", 0, 0, "unknown"),
                       IF IsSome(o.requires_screenshot) THEN Unwrap(o.requires_screenshot)
                       ELSE TRUE,
                       IF IsSome(o.pending_safety_checks) THEN Unwrap(o.pending_safety_checks)
                       ELSE << >>)
        EXCEPT !.call_id = IF IsSome(o.call_id) THEN Unwrap(o.call_id) ELSE ""]

\* Variant of ScanOutputs: the first message with text is returned at once
RECURSIVE ScanOutputsMessageFirst(_, _, _)
ScanOutputsMessageFirst(outputs, pending_message, response_id) ==
    IF outputs = << >>
    THEN DoneReply(response_id)
    ELSE LET o == Head(outputs)
         IN  CASE o.type = Some("computer_call") -> ComputerCallOf(o, response_id)
               [] o.type = Some("message") /\ IsSome(o.text) -> MessageReply(Unwrap(o.text))
               [] o.type = Some("done") -> DoneReply(response_id)
               [] OTHER -> ScanOutputsMessageFirst(Tail(outputs), pending_message, response_id)

\* The loop of parse_output and what follows it (cua.rs 200-251)
RECURSIVE ScanOutputs(_, _, _)
ScanOutputs(outputs, pending_message, response_id) ==
    IF outputs = << >>
    THEN IF IsSome(pending_message)
         THEN MessageReply(Unwrap(pending_message))
         ELSE DoneReply(response_id)
    ELSE LET o == Head(outputs)
         IN  CASE o.type = Some("computer_call") -> ComputerCallOf(o, response_id)
               [] o.type = Some("message") ->
                      ScanOutputs(Tail(outputs),
                                  IF IsSome(o.text) THEN o.text ELSE pending_message,
                                  response_id)
               [] o.type = Some("done") -> DoneReply(response_id)
               [] OTHER -> ScanOutputs(Tail(outputs), pending_message, response_id)

\* Variant of parse_output: a message takes priority over a later tool call
parse_output_message_first(v) ==
    IF IsNone(v.id)
    THEN Err(OtherError("missing id"))
    ELSE Ok(ScanOutputsMessageFirst(IF IsSome(v.output) THEN Unwrap(v.output) ELSE << >>,
                                    None, Unwrap(v.id)))

\* CuaClient::parse_output (cua.rs 185-252)
parse_output(v) ==
    IF IsNone(v.id)
    THEN Err(OtherError("missing id"))
    ELSE Ok(ScanOutputs(IF IsSome(v.output) THEN Unwrap(v.output) ELSE << >>,
                        None, Unwrap(v.id)))

\* Output lists of up to MaxItems items
OutputLists == UNION { [1..n -> OutputItems] : n \in 0..MaxItems }

\* A response of the service: with or without an id, with or without an
\* output array
InitParse ==
    /\ mode = "parse"
    /\ max_steps = 0
    /\ timeout_ms = None
    /\ reasonerKind = "cua"
    /\ stop_on_message = TRUE
    /\ auto_confirm_text = None
    /\ SessionInit
    /\ ConcInit
    /\ runNo = 1
    /\ startSt = CuaStateDefault
    /\ parseIn \in [id : { None, Some("r1") },
                     output : { None } \cup { Some(l) : l \in OutputLists }]
    /\ parseOut = None
    /\ pc = "init"
    /\ i = 0
    /\ steps = << >>
    /\ metrics = MetricsDefault
    /\ last_error = None
    /\ last_snapshot = Snapshot(0, FALSE)
    /\ snapCount = 0
    /\ now = 0
    /\ ret = None
    /\ calls = << >>

\* parse_output is applied to the response
Parse ==
    /\ mode = "parse"
    /\ IsNone(parseOut)
    /\ parseOut' = Some(parse_output(parseIn))
    /\ UNCHANGED << Config, Conc, Session, Run, runNo, startSt, parseIn >>

SpecParse == InitParse /\ [][Parse]_vars

\* Longer runs of an arbitrary Reasoner: MaxLongSteps iterations, with no
\* deadline or with one that has passed when the loop begins
InitLong ==
    /\ mode = "agent"
    /\ max_steps = MaxLongSteps
    /\ timeout_ms \in { None, Some(0) }
    /\ reasonerKind = "generic"
    /\ stop_on_message = TRUE
    /\ auto_confirm_text = None
    /\ SessionInit
    /\ ConcInit
    /\ AuxInit
    /\ pc = "init"
    /\ i = 0
    /\ steps = << >>
    /\ metrics = MetricsDefault
    /\ last_error = None
    /\ last_snapshot = Snapshot(0, FALSE)
    /\ snapCount = 0
    /\ now = 0
    /\ ret = None
    /\ calls = << >>

SpecLong == InitLong /\ [][Next]_vars

\* ------------------------------------------------------------------ the session on its own
\* A caller invokes CuaReasoner::think with some snapshot; the service replies.
ThinkCall ==
    /\ nextId < MaxReplies
    /\ \E image \in BOOLEAN, reply \in Replies(nextId + 1) :
           LET snapshot == Snapshot(0, image)
               out == CuaThink(st, snapshot, reply, stop_on_message)
           IN  Remember(st, snapshot, out)
    /\ UNCHANGED << Config, Aux, Conc, lastSuccess, pc, i, steps, metrics, last_error, last_snapshot,
                    snapCount, now, ret, calls >>

\* A caller invokes CuaReasoner::success.
SuccessCall ==
    /\ successRun < MaxSuccessCalls
    /\ lastSuccess' = Some(SuccessRecord(CuaSuccess(st, stop_on_message), st))
    /\ successRun' = successRun + 1
    /\ UNCHANGED << Config, Aux, Conc, st, nextId, lastThink, lastCall, hintsSent, pc, i, steps, metrics, last_error,
                    last_snapshot, snapCount, now, ret, calls >>

InitCua ==
    /\ mode = "cua"
    /\ max_steps = 0
    /\ timeout_ms = None
    /\ reasonerKind = "cua"
    /\ stop_on_message \in BOOLEAN
    /\ auto_confirm_text \in { None, Some("Yes, proceed") }
    /\ SessionInit
    /\ ConcInit
    /\ AuxInit
    /\ pc = "init"
    /\ i = 0
    /\ steps = << >>
    /\ metrics = MetricsDefault
    /\ last_error = None
    /\ last_snapshot = Snapshot(0, FALSE)
    /\ snapCount = 0
    /\ now = 0
    /\ ret = None
    /\ calls = << >>

NextCua == ThinkCall \/ SuccessCall

SpecCua == InitCua /\ [][NextCua]_vars

\* ------------------------------------------------------------------ tool calls of every action kind
\* One CuaAction of each kind the service can send (cua.rs 56-68)
AllCuaActions ==
    { CuaAct("click", 1, 2, "left"), CuaAct("double_click", 3, 4, ""),
      CuaAct("move", 5, 6, ""), CuaAct("scroll", 7, -8, ""),
      CuaAct("type", 0, 0, "abc"), CuaAct("keypress", 0, 0, "Enter"),
      CuaAct("drag_path", 0, 0, ""), CuaAct("wait", 300, 0, ""),
      CuaAct("screenshot", 0, 0, ""), CuaAct("unknown", 0, 0, "") }

\* Tool-call replies carrying each of them
ToolCallReplies(id) ==
    { ComputerCallReply(id, a, r, << >>) : a \in AllCuaActions, r \in BOOLEAN }

\* CuaReasoner::think answered with a tool call, with a snapshot that has an image
ThinkCallMapped ==
    /\ nextId < MaxMapReplies
    /\ \E reply \in ToolCallReplies(nextId + 1) :
           LET snapshot == Snapshot(0, TRUE)
               out == CuaThink(st, snapshot, reply, stop_on_message)
           IN  Remember(st, snapshot, out)
    /\ UNCHANGED << Config, Aux, Conc, lastSuccess, Run >>

SpecMap == InitCua /\ [][ThinkCallMapped]_vars

\* ------------------------------------------------------------------ callers sharing a CuaReasoner
\* Clones of one CuaReasoner share `state: Arc<Mutex<CuaState>>`. Each think
\* call takes the lock on entry (agent.rs 843), holds the guard `st` across
\* the remote call, writes the session through it and drops it on return.
\* Variant of LockFree: `lock().await` does not wait for the holder
LockNeverWaits == TRUE

\* `self.state.lock().await` returns only when no guard is alive
LockFree == IsNone(lockHolder)

\* Variant of LockAfterSend: the guard is dropped before the remote call
LockDroppedAcrossSend(c) == None

\* The guard `st` stays alive across `.await` on the remote call
LockAfterSend(c) == Some(c)

\* The think call in flight of caller c
InFlight(c) == Unwrap(inflight[c])

\* The caller whose think left the session awaiting an observation
OwnerAfter(c, out) ==
    IF ~out.st.awaiting_screenshot THEN None
    ELSE IF out.res.ok THEN Some(c)
    ELSE owner

\* think, from the lock to the request going out (agent.rs 843-863, 896-904)
ThinkEnter(c) ==
    /\ cpc[c] = "idle"
    /\ LockFree
    /\ nextId < MaxReplies
    /\ \E image \in BOOLEAN :
           LET snapshot == Snapshot(0, image)
               probe == CuaThink(st, snapshot, DoneReply(0), stop_on_message)
           IN  /\ IsSome(probe.req)
               /\ inflight' = [inflight EXCEPT ![c] =
                                  Some([pre |-> st, snapshot |-> snapshot, req |-> probe.req])]
    /\ lockHolder' = LockAfterSend(c)
    /\ cpc' = [cpc EXCEPT ![c] = "sent"]
    /\ UNCHANGED << Config, Aux, Session, owner, Run >>

\* think returns before any request: no image or no call id while awaiting
\* (agent.rs 847-854); the guard is taken and dropped within the step
ThinkRejects(c) ==
    /\ cpc[c] = "idle"
    /\ LockFree
    /\ \E image \in BOOLEAN :
           LET snapshot == Snapshot(0, image)
               out == CuaThink(st, snapshot, NoReply, stop_on_message)
           IN  /\ IsNone(out.req)
               /\ Remember(st, snapshot, out)
    /\ UNCHANGED << Config, Aux, Conc, lastSuccess, Run >>

\* think, from the reply of the remote call to the return (agent.rs 864-893,
\* 905-928): the writes go through the guard taken on entry, which is dropped
\* when the call returns
ThinkReceive(c) ==
    /\ cpc[c] = "sent"
    /\ \E reply \in Replies(nextId + 1) :
           LET out == CuaThink(InFlight(c).pre, InFlight(c).snapshot, reply, stop_on_message)
           IN  /\ Remember(InFlight(c).pre, InFlight(c).snapshot, out)
               /\ owner' = OwnerAfter(c, out)
    /\ lockHolder' = IF lockHolder = Some(c) THEN None ELSE lockHolder
    /\ cpc' = [cpc EXCEPT ![c] = "idle"]
    /\ inflight' = [inflight EXCEPT ![c] = None]
    /\ UNCHANGED << Config, Aux, lastSuccess, Run >>

\* success takes the same lock for its read (agent.rs 937)
SuccessLocked(c) ==
    /\ cpc[c] = "idle"
    /\ LockFree
    /\ successRun < MaxSuccessCalls
    /\ lastSuccess' = Some(SuccessRecord(CuaSuccess(st, stop_on_message), st))
    /\ successRun' = successRun + 1
    /\ UNCHANGED << Config, Aux, Conc, st, nextId, lastThink, lastCall, hintsSent, Run >>

NextConc ==
    \E c \in Callers :
        \/ ThinkEnter(c)
        \/ ThinkRejects(c)
        \/ ThinkReceive(c)
        \/ SuccessLocked(c)

SpecConc == InitCua /\ [][NextConc]_vars

\* ------------------------------------------------------------------ properties
\* run_goal has returned Ok(report) to its caller
ReturnedReport == pc = "returned" /\ IsSome(ret) /\ Unwrap(ret).ok
\* run_goal has returned Err(e) to its caller
ReturnedError == pc = "returned" /\ IsSome(ret) /\ ~Unwrap(ret).ok
TheReport == Unwrap(Unwrap(ret).val)
TheError == Unwrap(Unwrap(ret).err)

\* The calls of iteration k, and those of one operation
CallsOf(k, op) == { n \in DOMAIN calls : calls[n].iter = k /\ calls[n].op = op }
\* Iteration k logged its step (write_step succeeded and the step was pushed)
Logged(k) == \E n \in CallsOf(k, "write_step") : calls[n].out = "ok"

\* C1: every RunReport that run_goal returns has at most max_steps StepLog
\* entries, whatever the Reasoner, the Policy and the Computer did.
C1_StepsWithinBudget ==
    ReturnedReport => Len(TheReport.steps) <= max_steps

\* C1 witness: a report that uses the whole budget of two or more steps.
C1_Witness ==
    /\ ReturnedReport
    /\ max_steps >= 2
    /\ Len(TheReport.steps) = max_steps

\* C2 (as claimed): every report with a non-success status has
\* metrics.steps = len(steps).
C2_MetricsStepsMatchLog ==
    (ReturnedReport /\ TheReport.status # "Success")
        => TheReport.metrics.steps = Len(TheReport.steps)

\* A failed call of the Reasoner (think or success) in the call log
FailedReasonerCalls ==
    { n \in DOMAIN calls : calls[n].op \in {"think", "success"} /\ calls[n].out = "err" }

Thought_made == IsSome(lastThink)
LastThink == Unwrap(lastThink)

\* C4 (as claimed): awaiting_screenshot is true exactly when
\* pending_call_id is set.
C4_AwaitingIffPending ==
    st.awaiting_screenshot <=> IsSome(st.pending_call_id)

\* C4 (amended): awaiting_screenshot implies pending_call_id is set; a
\* tool-call reply always sets pending_call_id to its call id and sets
\* awaiting_screenshot to the reply's requires_screenshot, so the two may
\* differ when no observation is required.
C4_AwaitingImpliesPending ==
    /\ st.awaiting_screenshot => IsSome(st.pending_call_id)
    /\ (Thought_made /\ LastThink.reply.kind = "computer_call")
          => /\ st.pending_call_id = Some(LastThink.reply.call_id)
             /\ st.awaiting_screenshot = LastThink.reply.requires_screenshot

\* C4 witness: an observation reply answered by a tool call that requires
\* another observation.
C4_Witness ==
    /\ Thought_made
    /\ LastThink.pre.awaiting_screenshot
    /\ LastThink.reply.kind = "computer_call"
    /\ LastThink.reply.requires_screenshot
    /\ st.awaiting_screenshot
    /\ IsSome(st.pending_call_id)

\* C5 (as claimed): after a think answered by a plain message the
\* previous-response identifier is none; after one answered by a tool call
\* it is the new response id.
C5_MessageClearsPrevious ==
    Thought_made =>
        /\ LastThink.reply.kind = "message" => IsNone(st.previous)
        /\ LastThink.reply.kind = "computer_call"
              => st.previous = Some(LastThink.reply.response_id)

\* C6: when the remote call of think fails (new turn or observation reply),
\* think returns a Reasoner error and the session is what it was before.
C6_FailedCallLeavesSession ==
    (Thought_made /\ LastThink.reply.kind = "fail")
        => /\ ~LastThink.res.ok
           /\ Unwrap(LastThink.res.err).kind = "Reasoner"
           /\ st = LastThink.pre

\* C6 witness: an observation reply fails while a call with safety checks
\* is pending.
C6_Witness ==
    /\ Thought_made
    /\ LastThink.reply.kind = "fail"
    /\ LastThink.pre.awaiting_screenshot
    /\ LastThink.pre.pending_safety_checks # << >>
    /\ IsSome(LastThink.req)
    /\ Unwrap(LastThink.req).kind = "computer_output"

\* C7: an iteration that begins after the deadline calls no Reasoner, Policy
\* or Computer: the only call is write_run_end, and the report returned has
\* status Timeout and error "Run budget exceeded"; with timeout_ms = 0 and
\* max_steps >= 1 the report has no steps.
C7_DeadlinePrecedence ==
    [][ (pc = "loop" /\ i < max_steps /\ IsSome(timeout_ms) /\ now >= Unwrap(timeout_ms)
         /\ now' = now)
        => /\ pc' = "returned"
           /\ Len(calls') = Len(calls) + 1
           /\ calls'[Len(calls')].op = "write_run_end"
           /\ st' = st /\ nextId' = nextId /\ steps' = steps
           /\ ReturnedReport'
                => /\ TheReport'.status = "Timeout"
                   /\ TheReport'.error = Some("Run budget exceeded")
                   /\ TheReport'.steps = steps
                   /\ (timeout_ms = Some(0) => TheReport'.steps = << >>) ]_vars

\* C7 witness: the deadline passes after a step was logged.
C7_Witness ==
    /\ ReturnedReport
    /\ TheReport.error = Some("Run budget exceeded")
    /\ Len(TheReport.steps) >= 1

\* C8: an iteration whose action the Policy denies never calls Computer.act,
\* and once its step is logged the StepLog has result_hint "denied" and the
\* loop has moved on to the next iteration.
C8_DeniedStepContinues ==
    \A n \in DOMAIN calls :
        (calls[n].op = "approve" /\ calls[n].out = "denied")
            => LET k == calls[n].iter IN
               /\ CallsOf(k, "act") = {}
               /\ CallsOf(k, "write_step") # {}
               /\ Logged(k)
                    => /\ Len(steps) > k
                       /\ steps[k + 1].result_hint = "denied"
                       /\ steps[k + 1].step = k
                       /\ i > k
                       /\ ReturnedError => calls[Len(calls)].iter > k

\* C8 witness: a denied first step followed by a second iteration.
C8_Witness ==
    /\ Len(steps) >= 2
    /\ steps[1].result_hint = "denied"

\* The scenario of C9: no deadline, the goal is never met, every think
\* proposes an action, every approve is a denial, and nothing else fails.
AlwaysDenied ==
    /\ IsNone(timeout_ms)
    /\ max_steps >= 1
    /\ \A n \in DOMAIN calls :
          /\ calls[n].op = "success" => calls[n].out = "false"
          /\ calls[n].op = "think" => calls[n].out = "ok" /\ IsSome(calls[n].action)
          /\ calls[n].op = "approve" => calls[n].out = "denied"
          /\ calls[n].out # "err"

\* "policy denied: <scope>" for the scope of an Approval
DeniedText(approval) ==
    IF approval.scope = Some("Network") THEN "policy denied: Network"
    ELSE "policy denied: BrowserNavigate"

\* C9: when every iteration's action is denied, the run makes exactly
\* max_steps iterations and returns Timeout, every step is "denied" and the
\* report's error is the policy-denied text of the last denial.
C9_AlwaysDeniedTimesOut ==
    (pc = "returned" /\ AlwaysDenied) =>
        /\ ReturnedReport
        /\ TheReport.status = "Timeout"
        /\ Len(TheReport.steps) = max_steps
        /\ Cardinality({ n \in DOMAIN calls : calls[n].op = "think" }) = max_steps
        /\ \A k \in 1..max_steps : TheReport.steps[k].result_hint = "denied"
        /\ TheReport.error
             = Some(DeniedText(Unwrap(TheReport.steps[max_steps].approval)))

\* C9 witness: two denials, the last without a scope.
C9_Witness ==
    /\ pc = "returned" /\ AlwaysDenied
    /\ max_steps = 2
    /\ TheReport.error = Some("policy denied: BrowserNavigate")

\* C10: when Computer.act fails in iteration k, once the step is logged the
\* StepLog of k is an "error" step carrying the error text, the loop has
\* moved on, and the think call of iteration k+1 is given that same error.
C10_ActErrorRemembered ==
    \A n \in DOMAIN calls :
        (calls[n].op = "act" /\ calls[n].out = "err")
            => LET k == calls[n].iter IN
               /\ CallsOf(k, "write_step") # {}
               /\ Logged(k)
                    => /\ Len(steps) > k
                       /\ steps[k + 1].result_hint = "error"
                       /\ steps[k + 1].error = Some("computer error: act failed")
                       /\ i > k
                       /\ ReturnedError => calls[Len(calls)].iter > k
                       /\ \A m \in CallsOf(k + 1, "think") : calls[m].err = calls[n].err

\* C10 witness: act fails in the first iteration and think runs in the second.
C10_Witness ==
    /\ \E n \in CallsOf(0, "act") : calls[n].out = "err"
    /\ CallsOf(1, "think") # {}

\* The goal checks that returned true, in the call log
GoalMetCalls ==
    { n \in DOMAIN calls : calls[n].op = "success" /\ calls[n].out = "true" }

\* The service replied with a plain message to every request of the run: the
\* run sent a request, each step carries the message text and no action.
AlwaysPlainMessage ==
    /\ reasonerKind = "cua"
    /\ IsSome(lastThink)
    /\ Unwrap(lastThink).reply.kind = "message"
    /\ \A k \in DOMAIN steps :
           steps[k].plan = Unwrap(lastThink).reply.text /\ IsNone(steps[k].action)

IsSuccessCall == successRun' = successRun + 1

\* C12: once a session that stops on message holds a completion message, it
\* keeps holding one, and every call of success from then on returns true,
\* however many in a row, without sending a request to the service.
C12_SuccessIdempotent ==
    [][ /\ IsSome(st.done_message) => IsSome(st'.done_message)
        /\ (IsSuccessCall /\ stop_on_message /\ IsSome(st.done_message))
               => /\ Unwrap(lastSuccess').res = TRUE
                  /\ nextId' = nextId ]_vars

\* C12 witness: three success calls in a row on a session that holds a
\* completion message, the last one returning true.
C12_Witness ==
    /\ stop_on_message
    /\ IsSome(st.done_message)
    /\ successRun = MaxSuccessCalls
    /\ IsSome(lastSuccess) /\ Unwrap(lastSuccess).res

\* C13: success returns true only if stop_on_message is set and the session
\* it read holds a completion message; without stop_on_message it returns
\* false whatever the session holds; and it leaves the session as it was.
C13_SuccessContract ==
    [][ IsSuccessCall =>
            /\ Unwrap(lastSuccess').pre = st
            /\ Unwrap(lastSuccess').res => (stop_on_message /\ IsSome(st.done_message))
            /\ ~stop_on_message => ~Unwrap(lastSuccess').res
            /\ st' = st ]_vars

\* C13 witness: without stop_on_message, success has returned false on a
\* session that recorded the explicit done signal.
C13_Witness ==
    /\ ~stop_on_message
    /\ st.done_message = Some("done")
    /\ successRun >= 1
    /\ IsSome(lastSuccess) /\ ~Unwrap(lastSuccess).res
\* The run notified MemoryStore of run start (write_run_start succeeded)
RunStarted == \E n \in CallsOf(-1, "write_run_start") : calls[n].out = "ok"

\* The write_run_end calls of the run, whichever iteration made them
RunEndCalls == { n \in DOMAIN calls : calls[n].op = "write_run_end" }

\* C14 (as claimed): every run that notified run start has, by the time
\* run_goal returns, notified run end exactly once.
C14_RunEndAlwaysNotified ==
    (pc = "returned" /\ RunStarted) => Cardinality(RunEndCalls) = 1

\* C14 (amended): a run that returns a RunReport notified run end exactly
\* once, successfully, as its last collaborator call; a run that returns an
\* error either never notified run end (a collaborator's error left run_goal
\* through `?`) or its single, last, run-end notification is what failed.
C14_RunEndBeforeReport ==
    /\ ReturnedReport =>
           /\ RunStarted
           /\ RunEndCalls = { Len(calls) }
           /\ calls[Len(calls)].out = "ok"
    /\ ReturnedError =>
           \/ RunEndCalls = { }
           \/ /\ RunEndCalls = { Len(calls) }
              /\ calls[Len(calls)].out = "err"
              /\ TheError = MemoryError("write_run_end failed")
    /\ pc # "returned" => RunEndCalls = { }

\* C14 witness: a started run that logged a step has returned an error
\* without notifying run end.
C14_Witness ==
    /\ ReturnedError
    /\ RunStarted
    /\ Len(steps) >= 1
    /\ RunEndCalls = { }
\* C17: the StepLog sequence only grows by appending. A step either leaves
\* it alone or completes iteration i by appending one entry with step = i;
\* entries already appended are not changed; so the k-th entry (from zero)
\* has step = k, indices increase strictly, and the report returns the
\* sequence as it was built.
C17_StepLogAppendOnly ==
    /\ [](/\ \A k \in DOMAIN steps : steps[k].step = k - 1
          /\ Len(steps) = i
          /\ ReturnedReport => TheReport.steps = steps)
    /\ [][ \/ steps' = steps /\ i' = i
           \/ /\ Len(steps') = Len(steps) + 1
              /\ SubSeq(steps', 1, Len(steps)) = steps
              /\ steps'[Len(steps')].step = i
              /\ i' = i + 1 ]_vars

\* C17 witness: a returned report with two entries, the second with step 1.
C17_Witness ==
    /\ ReturnedReport
    /\ Len(TheReport.steps) = 2
    /\ TheReport.steps[2].step = 1
\* C18: a think call made while the session awaits an observation, with a
\* snapshot that has no image, fails with a Reasoner error, sends no request,
\* and leaves the session awaiting with the same pending call id.
C18_MissingImageFails ==
    (Thought_made /\ LastThink.pre.awaiting_screenshot /\ ~LastThink.snapshot.image)
        => /\ ~LastThink.res.ok
           /\ Unwrap(LastThink.res.err) = ReasonerError("missing snapshot image")
           /\ IsNone(LastThink.req)
           /\ st = LastThink.pre
           /\ st.awaiting_screenshot
           /\ st.pending_call_id = LastThink.pre.pending_call_id

\* C18 witness: the session awaits an observation for a pending call and
\* the last think call was given a snapshot without an image.
C18_Witness ==
    /\ Thought_made
    /\ LastThink.pre.awaiting_screenshot
    /\ IsSome(LastThink.pre.pending_call_id)
    /\ ~LastThink.snapshot.image
    /\ ~LastThink.res.ok

\* The step is a think call that sent a request; the request it sent
SendsRequest == nextId' = nextId + 1
SentRequest == Unwrap(Unwrap(lastThink').req)

C20_HintOneShot == hintsSent <= 1

\* C20 (amended): a request carries the hint exactly when it is a new-turn
\* request sent while the session has no previous-response id and a hint is
\* configured; a request that continues a thread never carries it.
C20_HintOnlyWithoutPrevious ==
    [][ SendsRequest =>
            /\ SentRequest.extra =
                   IF SentRequest.kind = "turn" /\ IsNone(st.previous)
                   THEN auto_confirm_text ELSE None
            /\ IsSome(st.previous) => IsNone(SentRequest.extra)
            /\ hintsSent' = IF IsSome(SentRequest.extra) THEN hintsSent + 1 ELSE hintsSent ]_vars

\* C20 witness: the hint has gone out with two requests of one session.
C20_Witness ==
    /\ hintsSent >= 2
    /\ IsNone(st.previous)
    /\ IsSome(auto_confirm_text)
\* The callers that are inside a think call
Thinking == { c \in Callers : cpc[c] # "idle" }

\* A round-trip is open: some caller's think received a tool call that
\* requires a screenshot, and the observation reply has not been answered
RoundTripOpen == IsSome(owner) /\ st.awaiting_screenshot

\* C15 (as claimed): while the observation round-trip of one caller is
\* open, no other caller is inside a think call.
C15_RoundTripExclusive ==
    RoundTripOpen => \A c \in Callers \ { Unwrap(owner) } : cpc[c] = "idle"

\* C15 (amended): the lock excludes think calls from one another, not from
\* a round-trip: at most one caller is inside think at any time, and a think
\* of another caller that runs while a round-trip is open reads the awaiting
\* session and sends the observation reply for the pending call itself.
C15_ThinkCallsExclusive ==
    /\ Cardinality(Thinking) <= 1
    /\ \A c \in Thinking :
           (RoundTripOpen /\ owner # Some(c))
               => /\ InFlight(c).pre = st
                  /\ Unwrap(InFlight(c).req).kind = "computer_output"
                  /\ Unwrap(InFlight(c).req).call_id = st.pending_call_id

\* C15 witness: caller A's think opened a round-trip and caller B's think
\* is in flight with the observation reply for A's pending call.
C15_Witness ==
    /\ owner = Some("A")
    /\ st.awaiting_screenshot
    /\ cpc["B"] = "sent"
    /\ Unwrap(InFlight("B").req).kind = "computer_output"

\* C16: a think call holds the session lock from its first read to its
\* return, across the remote call: while a call is in flight its caller
\* holds the lock and the session is still what the call read; the session
\* changes only when the lock holder's call returns, which frees the lock.
C16_LockHeldAcrossCall ==
    /\ [](\A c \in Callers :
             /\ cpc[c] = "sent" => (lockHolder = Some(c) /\ st = InFlight(c).pre)
             /\ lockHolder = Some(c) => cpc[c] = "sent")
    /\ [][ st' # st =>
               \E c \in Callers :
                   /\ lockHolder = Some(c)
                   /\ cpc[c] = "sent" /\ cpc'[c] = "idle"
                   /\ lockHolder' = None ]_vars

\* C16 witness: caller A is in flight, holding the lock, on the session
\* that caller B's completed call left awaiting an observation.
C16_Witness ==
    /\ cpc["A"] = "sent"
    /\ lockHolder = Some("A")
    /\ owner = Some("B")
    /\ InFlight("A").pre = st
    /\ IsSome(st.previous)
\* The step appends a StepLog; the StepLog it appends; the collaborator
\* calls it makes and their operations
Appended == Len(steps') = Len(steps) + 1
NewStep == steps'[Len(steps')]
NewCalls == SubSeq(calls', Len(calls) + 1, Len(calls'))
NewOps == { NewCalls[n].op : n \in DOMAIN NewCalls }

\* C21 (as claimed): an iteration whose Thought has no action and a
\* non-empty plan logs a "message" step, calls neither Computer nor Policy
\* and leaves last_snapshot unchanged.
C21_NonEmptyPlanIsMessage ==
    [][ (Appended /\ IsNone(NewStep.action) /\ NewStep.plan # "")
            => /\ NewStep.result_hint = "message"
               /\ NewOps \cap { "approve", "act", "snapshot" } = { }
               /\ last_snapshot' = last_snapshot ]_vars

\* C21 (amended): an iteration whose Thought has no action and a plan that
\* is non-blank after trimming logs a "message" step with no approval and no
\* snapshot id, calls neither Computer nor Policy and leaves last_snapshot
\* unchanged; a plan of whitespace only counts as empty: the iteration takes
\* the no-op observation and is not logged as a message.
C21_NonBlankPlanIsMessage ==
    [][ (Appended /\ IsNone(NewStep.action))
            => IF Trim(NewStep.plan) # ""
               THEN /\ NewStep.result_hint = "message"
                    /\ IsNone(NewStep.approval) /\ IsNone(NewStep.snapshot_id)
                    /\ NewOps \cap { "approve", "act", "snapshot" } = { }
                    /\ last_snapshot' = last_snapshot
               ELSE /\ NewStep.result_hint # "message"
                    /\ "snapshot" \in NewOps ]_vars

\* C21 witness: a message step was logged after a step that observed the
\* device, and the snapshot of that earlier step is still the last one.
C21_Witness ==
    /\ Len(steps) = 2
    /\ steps[2].result_hint = "message"
    /\ IsSome(steps[1].snapshot_id)
    /\ Some(last_snapshot.id) = steps[1].snapshot_id
\* C22: every Computer.act call comes right after a Policy call of the same
\* iteration for the same action that granted it, so no action reaches the
\* device without a granted approval; and every logged step that has an
\* action records the approval, denied exactly when the step is "denied".
C22_ActOnlyAfterGrant ==
    /\ \A n \in DOMAIN calls :
           calls[n].op = "act"
               => /\ n > 1
                  /\ calls[n - 1].op = "approve"
                  /\ calls[n - 1].out = "granted"
                  /\ calls[n - 1].iter = calls[n].iter
                  /\ calls[n - 1].action = calls[n].action
                  /\ IsSome(calls[n].action)
    /\ \A k \in DOMAIN steps :
           /\ IsSome(steps[k].action)
                  => /\ IsSome(steps[k].approval)
                     /\ ~Unwrap(steps[k].approval).granted <=> steps[k].result_hint = "denied"
                     /\ \E n \in CallsOf(k - 1, "approve") :
                            calls[n].action = steps[k].action
           /\ IsNone(steps[k].action)
                  => IsNone(steps[k].approval) /\ CallsOf(k - 1, "approve") = { }

\* C22 witness: one iteration was denied and did not act, the next was
\* granted and acted.
C22_Witness ==
    /\ Len(steps) = 2
    /\ steps[1].result_hint = "denied"
    /\ CallsOf(0, "act") = { }
    /\ IsSome(steps[2].approval) /\ Unwrap(steps[2].approval).granted
    /\ CallsOf(1, "act") # { }
\* The run returned a report after the loop used up its iterations
BudgetExhausted == ReturnedReport /\ i = max_steps

\* C23: when the loop completes max_steps iterations, the run returns
\* status Timeout with metrics.success false, and the report's error is the
\* text of the remembered error if one is remembered at that point, otherwise
\* "Step budget exceeded".
C23_BudgetExitReport ==
    BudgetExhausted =>
        /\ TheReport.status = "Timeout"
        /\ ~TheReport.metrics.success
        /\ Len(TheReport.steps) = max_steps
        /\ TheReport.error = IF IsSome(last_error)
                             THEN Some(FormatError(Unwrap(last_error)))
                             ELSE Some("Step budget exceeded")

\* C23 witness: the budget ran out right after a failed action, and the
\* report carries that action's error.
C23_Witness ==
    /\ BudgetExhausted
    /\ max_steps >= 1
    /\ steps[max_steps].result_hint = "error"
    /\ TheReport.error = Some("computer error: act failed")

\* The failed write_step calls of the run
FailedStepWrites ==
    { n \in DOMAIN calls : calls[n].op = "write_step" /\ calls[n].out = "err" }

\* C24: when write_step fails, run_goal returns that persistence error at
\* once: the failed write is the run's last call, the step of that iteration
\* is not appended, no later iteration runs and no report is produced.
C24_WriteStepFailurePropagates ==
    \A n \in FailedStepWrites :
        /\ n = Len(calls)
        /\ ReturnedError
        /\ TheError = MemoryError("write_step failed")
        /\ i = calls[n].iter
        /\ Len(steps) = calls[n].iter

\* C24 witness: the write of a denied step failed in the second iteration.
C24_Witness ==
    /\ Len(calls) >= 2
    /\ Len(calls) \in FailedStepWrites
    /\ calls[Len(calls) - 1].op = "approve" /\ calls[Len(calls) - 1].out = "denied"
    /\ calls[Len(calls)].iter = 1
\* The think calls of the run, in the call log
ThinkCallsMade == { n \in DOMAIN calls : calls[n].op = "think" }

\* C25 (as claimed): think receives a last_error only if the iteration
\* right before it was logged as "denied" or "error".
C25_ErrorOnlyAfterFailedStep ==
    \A n \in ThinkCallsMade :
        IsSome(calls[n].err)
            => /\ calls[n].iter >= 1
               /\ steps[calls[n].iter].result_hint \in { "denied", "error" }

\* The latest step before iteration k that executed or was refused (not a
\* message step); 0 when there is none
LastOutcome(k) ==
    LET S == { j \in 1..k : steps[j].result_hint # "message" }
    IN  IF S = { } THEN 0 ELSE CHOOSE j \in S : \A m \in S : m <= j

\* C25 (amended): think receives the error of the latest earlier iteration
\* that was denied or failed, provided no iteration executed successfully
\* since; message steps in between neither set nor clear it. After a
\* successful execution, and in the first iteration, it receives none.
C25_ErrorUntilNextSuccess ==
    \A n \in ThinkCallsMade :
        LET j == LastOutcome(calls[n].iter) IN
        IF j = 0 \/ steps[j].result_hint \in { "changed", "unchanged" }
        THEN IsNone(calls[n].err)
        ELSE /\ IsSome(calls[n].err)
             /\ steps[j].result_hint = "error"
                    => steps[j].error = Some(FormatError(Unwrap(calls[n].err)))
             /\ steps[j].result_hint = "denied"
                    => /\ Unwrap(calls[n].err).kind = "Denied"
                       /\ Unwrap(calls[n].err).arg = DeniedScope(Unwrap(steps[j].approval))

\* C25 witness: the action of the first iteration failed, the second
\* iteration was a message step, and the third think received the error.
C25_Witness ==
    /\ Len(steps) >= 2
    /\ steps[1].result_hint = "error"
    /\ steps[2].result_hint = "message"
    /\ \E n \in CallsOf(2, "think") : IsSome(calls[n].err)
\* The no-op observations that failed, in the call log
FailedNoopObservations ==
    { n \in DOMAIN calls : calls[n].op = "snapshot" /\ calls[n].out = "err" }

\* C26 (as claimed): when the no-op observation taken for a Thought with no
\* action and an empty plan fails, the iteration is logged as an "error"
\* step, the error is remembered for the next think, and the run goes on.
C26_NoopFailureRecorded ==
    \A n \in FailedNoopObservations :
        LET k == calls[n].iter IN
        /\ CallsOf(k, "write_step") # { }
        /\ Logged(k)
               => /\ Len(steps) > k
                  /\ steps[k + 1].result_hint = "error"
                  /\ i > k
                  /\ \A m \in CallsOf(k + 1, "think") : IsSome(calls[m].err)
\* The last think call was answered with a done signal / a plain message
DoneAnswered == Thought_made /\ LastThink.reply.kind = "done"
MessageAnswered == Thought_made /\ LastThink.reply.kind = "message"

\* C27 (as claimed): after a think answered with a done signal the session
\* holds the new response id and a completion message, is not awaiting and
\* has no pending call id, and the Thought is plan "done" with no action.
C27_DoneClearsPending ==
    DoneAnswered =>
        /\ LastThink.res = Ok(Thought("done", None))
        /\ st.previous = Some(LastThink.reply.response_id)
        /\ IsSome(st.done_message)
        /\ ~st.awaiting_screenshot
        /\ IsNone(st.pending_call_id)

\* C27 (amended): after a think answered with a done signal the session
\* holds the new response id, holds the completion message "done" whatever
\* stop_on_message says, and is not awaiting; the Thought is plan "done"
\* with no action. The pending call id and safety checks are cleared when
\* the signal answers an observation reply and left as they were when it
\* answers a new turn.
C27_DoneReply ==
    DoneAnswered =>
        /\ LastThink.res = Ok(Thought("done", None))
        /\ st.previous = Some(LastThink.reply.response_id)
        /\ st.done_message = Some("done")
        /\ ~st.awaiting_screenshot
        /\ IF LastThink.pre.awaiting_screenshot
           THEN IsNone(st.pending_call_id) /\ st.pending_safety_checks = << >>
           ELSE /\ st.pending_call_id = LastThink.pre.pending_call_id
                /\ st.pending_safety_checks = LastThink.pre.pending_safety_checks

\* C27 witness: a done signal answered a new turn of a session that does
\* not stop on message and still holds the id of an earlier tool call.
C27_Witness ==
    /\ DoneAnswered
    /\ ~stop_on_message
    /\ ~LastThink.pre.awaiting_screenshot
    /\ IsSome(st.pending_call_id)
    /\ st.done_message = Some("done")

\* C28 (as claimed): after a think answered with a plain message the
\* session is not awaiting and has no pending call id, holds a completion
\* message exactly when stop_on_message is set, and the Thought carries the
\* message text with no action.
C28_MessageClearsPending ==
    MessageAnswered =>
        /\ LastThink.res = Ok(Thought(LastThink.reply.text, None))
        /\ ~st.awaiting_screenshot
        /\ IsNone(st.pending_call_id)
        /\ IsSome(st.done_message) <=> stop_on_message

\* C28 (amended): after a think answered with a plain message the session
\* is not awaiting and the Thought carries the message text with no action;
\* with stop_on_message the text becomes the completion message, without it
\* the completion message is left as it was. The pending call id and safety
\* checks are cleared when the message answers an observation reply and
\* left as they were when it answers a new turn.
C28_MessageReply ==
    MessageAnswered =>
        /\ LastThink.res = Ok(Thought(LastThink.reply.text, None))
        /\ ~st.awaiting_screenshot
        /\ st.done_message = IF stop_on_message THEN Some(LastThink.reply.text)
                             ELSE LastThink.pre.done_message
        /\ IF LastThink.pre.awaiting_screenshot
           THEN IsNone(st.pending_call_id) /\ st.pending_safety_checks = << >>
           ELSE /\ st.pending_call_id = LastThink.pre.pending_call_id
                /\ st.pending_safety_checks = LastThink.pre.pending_safety_checks

\* C28 witness: a plain message answered a new turn of a session that does
\* not stop on message; the id of an earlier tool call and the completion
\* message of an earlier done signal are still held.
C28_Witness ==
    /\ MessageAnswered
    /\ ~stop_on_message
    /\ ~LastThink.pre.awaiting_screenshot
    /\ IsSome(st.pending_call_id)
    /\ st.done_message = Some("done")
\* The last think call was answered with a tool call
ToolCallAnswered == Thought_made /\ LastThink.reply.kind = "computer_call"

\* C29: the Thought returned for a tool call has an empty plan and the
\* action the mapping table gives for the service action: click and
\* double-click give Click at the coordinates, move gives Hover at the
\* coordinates, scroll gives Scroll with no target and the deltas, type gives
\* Type of the text into the CSS locator "*", keypress gives Key of the key;
\* drag-path, wait, screenshot and unknown kinds give no action.
C29_ActionMappingTable ==
    ToolCallAnswered =>
        LET a == LastThink.reply.action
            t == Unwrap(LastThink.res.val)
        IN  /\ LastThink.res.ok
            /\ t.plan = ""
            /\ a.kind \in { "click", "double_click" }
                   => t.action = Some([type |-> "Click",
                                        target |-> [by |-> "coordinates", x |-> a.x,
                                                    y |-> a.y, selector |-> ""],
                                        text |-> "", dx |-> 0, dy |-> 0])
            /\ a.kind = "move"
                   => t.action = Some([type |-> "Hover",
                                        target |-> [by |-> "coordinates", x |-> a.x,
                                                    y |-> a.y, selector |-> ""],
                                        text |-> "", dx |-> 0, dy |-> 0])
            /\ a.kind = "scroll"
                   => t.action = Some([type |-> "Scroll", target |-> NoLocator,
                                        text |-> "", dx |-> a.x, dy |-> a.y])
            /\ a.kind = "type"
                   => t.action = Some([type |-> "Type",
                                        target |-> [by |-> "css", x |-> 0, y |-> 0,
                                                    selector |-> "*"],
                                        text |-> a.text, dx |-> 0, dy |-> 0])
            /\ a.kind = "keypress"
                   => t.action = Some([type |-> "Key", target |-> NoLocator,
                                        text |-> a.text, dx |-> 0, dy |-> 0])
            /\ a.kind \in { "drag_path", "wait", "screenshot", "unknown" }
                   => IsNone(t.action)

\* C29 witness: after a first tool call, a double-click tool call was
\* returned as a Click at its coordinates.
C29_Witness ==
    /\ ToolCallAnswered
    /\ nextId = 2
    /\ LastThink.reply.action.kind = "double_click"
    /\ IsSome(Unwrap(LastThink.res.val).action)
    /\ Unwrap(Unwrap(LastThink.res.val).action).type = "Click"
\* The loop stands between two iterations and the think of the iteration
\* just logged was answered with a tool call that requires an observation
\* and whose action maps to no Action
ObservationOnlyStepDone ==
    /\ pc = "loop"
    /\ reasonerKind = "cua"
    /\ ToolCallAnswered
    /\ LastThink.reply.requires_screenshot
    /\ LastThink.res.ok
    /\ IsNone(Unwrap(LastThink.res.val).action)

\* What the iteration of an observation-only tool call did: no Policy, no
\* act, one snapshot, an "unchanged" step with that snapshot, which is now
\* the last snapshot, and a session awaiting the observation for that call
ObservationOnlyStep ==
    /\ i >= 1
    /\ CallsOf(i - 1, "approve") = { }
    /\ CallsOf(i - 1, "act") = { }
    /\ Cardinality(CallsOf(i - 1, "snapshot")) = 1
    /\ steps[i].result_hint = "unchanged"
    /\ IsNone(steps[i].approval)
    /\ steps[i].snapshot_id = Some(last_snapshot.id)
    /\ st.awaiting_screenshot
    /\ st.pending_call_id = Some(LastThink.reply.call_id)

\* The step calls Reasoner::think
CallsThink == \E n \in DOMAIN NewCalls : NewCalls[n].op = "think"

\* C30 (as claimed): after the iteration of an observation-only tool call
\* (no Policy, no act, one snapshot, logged "unchanged"), the very next think
\* sends the new snapshot as the observation reply for the pending call.
C30_NextThinkSendsObservation ==
    /\ [](ObservationOnlyStepDone => ObservationOnlyStep)
    /\ [][ (ObservationOnlyStepDone /\ CallsThink)
               => /\ LastThink'.snapshot = last_snapshot
                  /\ IsSome(LastThink'.req)
                  /\ Unwrap(LastThink'.req).kind = "computer_output"
                  /\ Unwrap(LastThink'.req).call_id = st.pending_call_id ]_vars

\* C30 (amended): the iteration of an observation-only tool call consults
\* no Policy, calls no act and takes one snapshot. If the snapshot fails,
\* run_goal returns that error at once. Otherwise the step is logged
\* "unchanged" and the very next think is given the new snapshot: if it has
\* an image, think sends it as the observation reply for the pending call;
\* if it has none, think fails with "missing snapshot image" and sends
\* nothing. In neither case does it start a new turn.
C30_NextThinkContinuesRoundTrip ==
    /\ [](/\ ObservationOnlyStepDone => ObservationOnlyStep
          /\ \A n \in FailedNoopObservations :
                 /\ n = Len(calls)
                 /\ ReturnedError
                 /\ TheError = ComputerError("snapshot failed")
                 /\ CallsOf(calls[n].iter, "approve") = { }
                 /\ CallsOf(calls[n].iter, "act") = { })
    /\ [][ (ObservationOnlyStepDone /\ CallsThink)
               => /\ LastThink'.snapshot = last_snapshot
                  /\ LastThink'.pre = st
                  /\ IF last_snapshot.image
                     THEN /\ IsSome(LastThink'.req)
                          /\ Unwrap(LastThink'.req).kind = "computer_output"
                          /\ Unwrap(LastThink'.req).call_id = st.pending_call_id
                     ELSE /\ IsNone(LastThink'.req)
                          /\ LastThink'.res = Err(ReasonerError("missing snapshot image"))
                          /\ ReturnedError' ]_vars

\* C30 witness: the second think of the run sent the snapshot taken for an
\* observation-only tool call as the observation reply for that call.
C30_Witness ==
    /\ reasonerKind = "cua"
    /\ Len(steps) >= 1
    /\ steps[1].result_hint = "unchanged"
    /\ IsNone(steps[1].action)
    /\ CallsOf(1, "think") # { }
    /\ Thought_made
    /\ IsSome(LastThink.req)
    /\ Unwrap(LastThink.req).kind = "computer_output"
    /\ Some(LastThink.snapshot.id) = steps[1].snapshot_id
\* C31: a run driven by a CuaReasoner without stop_on_message never meets
\* the goal, whatever the service replies: no goal check returns true and
\* every report returned has status Timeout and metrics.success false.
C31_NoStopOnMessageNeverSucceeds ==
    (reasonerKind = "cua" /\ ~stop_on_message)
        => /\ GoalMetCalls = { }
           /\ ReturnedReport
                  => /\ TheReport.status = "Timeout"
                     /\ ~TheReport.metrics.success
                     /\ TheReport.error \in { Some("Run budget exceeded"),
                                              Some("Step budget exceeded") }
                        \/ IsSome(last_error)

\* C31 witness: the service sent an explicit done signal in the first
\* iteration, the run went on to use its budget of two steps and timed out.
C31_Witness ==
    /\ reasonerKind = "cua" /\ ~stop_on_message
    /\ ReturnedReport
    /\ Len(steps) = 2
    /\ steps[1].plan = "done"
    /\ st.done_message = Some("done")
    /\ TheReport.status = "Timeout"

\* C33: run_goal returns either a report whose status is Success or
\* Timeout, or an error with no report; no report has status Error,
\* whatever the collaborators did, errors logged in steps included.
C33_NoErrorStatus ==
    /\ ReturnedReport => TheReport.status \in { "Success", "Timeout" }
    /\ pc = "returned"
           => /\ IsSome(ret)
              /\ Unwrap(ret).ok => IsSome(Unwrap(ret).val) /\ IsNone(Unwrap(ret).err)
              /\ ~Unwrap(ret).ok => IsNone(Unwrap(ret).val) /\ IsSome(Unwrap(ret).err)
    /\ pc # "returned" => IsNone(ret)

\* C33 witness: a run whose every step failed returned a Timeout report.
C33_Witness ==
    /\ ReturnedReport
    /\ Len(steps) = 2
    /\ steps[1].result_hint = "error" /\ steps[2].result_hint = "error"
    /\ TheReport.status = "Timeout"
\* The steps logged so far that executed successfully
SuccessSteps == { k \in DOMAIN steps : steps[k].result_hint \in { "changed", "unchanged" } }

\* The calls that returned a snapshot to the run: the initial observation,
\* successful acts and successful no-op observations
ObservingCalls ==
    { n \in DOMAIN calls : calls[n].op \in { "observe", "act", "snapshot" }
                            /\ calls[n].out = "ok" }

\* C32: a step logged as message, denied or error leaves last_snapshot
\* unchanged; a step logged as changed or unchanged makes the snapshot it
\* was returned the last snapshot and logs that snapshot's id; so the last
\* snapshot is always that of the most recent success step, or the initial
\* observation if there is none, and it is the one the report carries.
C32_LastSnapshotFrame ==
    /\ [](/\ (pc = "loop" \/ ReturnedReport) =>
                /\ IF SuccessSteps = { }
                   THEN last_snapshot.id = 1
                   ELSE LET k == CHOOSE k \in SuccessSteps : \A m \in SuccessSteps : m <= k
                        IN  steps[k].snapshot_id = Some(last_snapshot.id)
                /\ last_snapshot.id = Cardinality(ObservingCalls)
          /\ ReturnedReport => TheReport.last_snapshot = Some(last_snapshot))
    /\ [][ Appended =>
               IF NewStep.result_hint \in { "message", "denied", "error" }
               THEN last_snapshot' = last_snapshot /\ IsNone(NewStep.snapshot_id)
               ELSE /\ last_snapshot'.id = snapCount + 1
                    /\ NewStep.snapshot_id = Some(last_snapshot'.id) ]_vars

\* C32 witness: a changed step followed by a failed step; the report
\* carries the snapshot of the first.
C32_Witness ==
    /\ ReturnedReport
    /\ Len(steps) = 2
    /\ steps[1].result_hint = "changed"
    /\ steps[2].result_hint = "error"
    /\ IsSome(TheReport.last_snapshot)
    /\ Some(Unwrap(TheReport.last_snapshot).id) = steps[1].snapshot_id
\* C34: in every session state that awaits an observation a pending call id
\* is set, and no think call has returned the "missing call_id" error.
C34_MissingCallIdUnreachable ==
    /\ st.awaiting_screenshot => IsSome(st.pending_call_id)
    /\ Thought_made =>
           /\ LastThink.pre.awaiting_screenshot => IsSome(LastThink.pre.pending_call_id)
           /\ LastThink.res # Err(ReasonerError("missing call_id"))

\* C34 witness: a think call made while awaiting failed in transport and
\* the session still awaits with its call id.
C34_Witness ==
    /\ Thought_made
    /\ LastThink.pre.awaiting_screenshot
    /\ LastThink.reply.kind = "fail"
    /\ st.awaiting_screenshot
    /\ IsSome(st.pending_call_id)
\* The think of the last allowed iteration was the first to record completion
CompletionRecordedInLastThink ==
    /\ reasonerKind = "cua"
    /\ stop_on_message
    /\ max_steps >= 1
    /\ CallsOf(max_steps - 1, "think") # { }
    /\ Thought_made
    /\ IsNone(LastThink.pre.done_message)
    /\ IsSome(st.done_message)

\* C35: the goal check is made only at the start of an iteration, right
\* before that iteration's think and never after the last one; a run whose
\* Reasoner first records completion in the think of iteration
\* max_steps - 1 returns status Timeout with metrics.success false.
C35_CompletionInLastThinkTimesOut ==
    /\ \A n \in DOMAIN calls :
           /\ calls[n].op = "success" => calls[n].iter \in 0..(max_steps - 1)
           /\ calls[n].op = "think" =>
                  /\ n > 1
                  /\ calls[n - 1] = Call(calls[n].iter, "success", "false", None, None)
    /\ (ReturnedReport /\ CompletionRecordedInLastThink) =>
           /\ TheReport.status = "Timeout"
           /\ ~TheReport.metrics.success
           /\ GoalMetCalls = { }

\* C35 witness: a report returned after the last iteration's think recorded
\* the completion message.
C35_Witness ==
    /\ ReturnedReport
    /\ CompletionRecordedInLastThink
    /\ CuaSuccess(st, stop_on_message)
    /\ TheReport.status = "Timeout"
\* A later run on a stop-on-message CuaReasoner that already held a
\* completion message when run_goal was called
RunOnCompletedSession ==
    /\ runNo >= 2
    /\ reasonerKind = "cua"
    /\ stop_on_message
    /\ IsSome(startSt.done_message)

\* No step turns a recorded completion message back into none
CompletionNeverCleared ==
    [][ IsSome(st.done_message) => IsSome(st'.done_message) ]_vars

\* C36 (as claimed): a recorded completion message is never cleared, and a
\* later run on a stop-on-message CuaReasoner that holds one returns Success
\* with zero steps and without any think call.
C36_ReusedSessionSucceeds ==
    /\ CompletionNeverCleared
    /\ [](RunOnCompletedSession =>
              /\ ThinkCallsMade = { }
              /\ ReturnedReport =>
                     /\ TheReport.status = "Success"
                     /\ TheReport.metrics.steps = 0
                     /\ TheReport.steps = << >>)

ParsedItems == IF IsSome(parseIn.output) THEN Unwrap(parseIn.output) ELSE << >>
\* Positions of the items that end the scan: computer_call and done items
StopItems ==
    { n \in DOMAIN ParsedItems : ParsedItems[n].type \in { Some("computer_call"), Some("done") } }
\* Positions of the message items that carry text
TextItems ==
    { n \in DOMAIN ParsedItems : ParsedItems[n].type = Some("message") /\ IsSome(ParsedItems[n].text) }
\* Positions of the computer_call items
CallItems == { n \in DOMAIN ParsedItems : ParsedItems[n].type = Some("computer_call") }
\* The list holds a computer_call item and otherwise only message items
CallAmongMessages ==
    /\ CallItems # { }
    /\ \A n \in DOMAIN ParsedItems :
           ParsedItems[n].type \in { Some("computer_call"), Some("message") }
\* What parse_output returned
Parsed == Unwrap(parseOut)
ParsedKind == IF Parsed.ok THEN Unwrap(Parsed.val).kind ELSE "error"

\* C37 (as claimed): parse_output yields a tool call whenever a
\* computer_call item is present together with message items in any order,
\* a plain message only when a message with text is present and no
\* computer_call or done item, and Done for a response with no
\* computer_call, no done item and no message text.
C37_ParseOutputClassifies ==
    IsSome(parseOut) =>
        /\ CallAmongMessages => ParsedKind = "computer_call"
        /\ ParsedKind = "message" => (TextItems # { } /\ StopItems = { })
        /\ (StopItems = { } /\ TextItems = { }) => ParsedKind = "done"

====
